---- MODULE Spec2Model ----
(***************************************************************************)
(* A model of the core of rubricheck: the per-criterion range clamp, the   *)
(* criterion key normalizer, the reconciler and report assembler of        *)
(* buildFinalEvaluation (route handler), the model-output JSON recoverer   *)
(* (openai client), the two schemas, the evaluation normalizer, the route  *)
(* handler POST from the form data to the response, the text normalizer of *)
(* the file parser and the form page (modes, files, texts, handleSubmit).  *)
(*                                                                         *)
(* Numbers.  estimated_range endpoints are integers.  max_score is any     *)
(* JavaScript number; the model carries it in units of 1/ScoreUnit, so     *)
(* that fractional max_scores (0.5, 2.5, ...) are covered.  Math.floor and *)
(* Math.round are computed on these rationals exactly (Math.round rounds   *)
(* halves towards +Infinity).                                              *)
(*                                                                         *)
(* Text.  A text is a sequence of characters, each a one-element token.    *)
(***************************************************************************)
EXTENDS Integers, Sequences, FiniteSets, TLC

VARIABLES
    pc,                 \* position of the computation under study
    estimatedRange,     \* clampCriterionRange: argument estimatedRange
    maxScore,           \* clampCriterionRange: argument maxScore (in 1/ScoreUnit)
    clamped,            \* clampCriterionRange(estimatedRange, maxScore)
    reclamped,          \* clampCriterionRange(clamped, maxScore)
    structuredRubric,   \* buildFinalEvaluation: argument structuredRubric
    evaluation,         \* buildFinalEvaluation: argument evaluation
    criteria,           \* buildFinalEvaluation: the reconciled criteria (lines 131-171)
    finalEvaluation,    \* buildFinalEvaluation: the report returned, or the error thrown
    outputText,         \* callJsonModel: response.output_text
    parsed,             \* parseModelJson(outputText): the object returned, or the error
    formData,           \* POST: the form fields of the request
    modelEnv,           \* process.env: is STRUCTURE_MODEL / EVALUATION_MODEL set
    modelOutput,        \* what the model service answers, per model
    calls,              \* the requests sent to the model service, in order
    response,           \* POST: the response returned
    textVersion,        \* parse.ts: which of its two normalizeText bodies is built
    inputText,          \* normalizeText: argument text
    normalizedText,     \* normalizeText(text)
    renormalizedText,   \* normalizeText(normalizedText)
    inputMode,          \* page: rubricMode and assignmentMode, by field
    inputFile,          \* page: rubricFile and assignmentFile, by field
    fieldText,          \* page: rubricText and assignmentText, by field
    loadingStep,        \* page: loadingStep
    gradeResult,        \* page: is a report shown
    pageError,          \* page: error, the message shown
    submissions         \* page: the calls of handleSubmit that have not returned

vars == <<pc, estimatedRange, maxScore, clamped, reclamped,
          structuredRubric, evaluation, criteria, finalEvaluation,
          outputText, parsed, formData, modelEnv, modelOutput, calls, response,
          textVersion, inputText, normalizedText, renormalizedText,
          inputMode, inputFile, fieldText, loadingStep, gradeResult, pageError, submissions>>

clampVars == <<estimatedRange, maxScore, clamped, reclamped>>
buildVars == <<structuredRubric, evaluation, criteria, finalEvaluation>>
jsonVars  == <<outputText, parsed>>
postVars  == <<formData, modelEnv, modelOutput, calls, response>>
textVars  == <<textVersion, inputText, normalizedText, renormalizedText>>
pageVars  == <<inputMode, inputFile, fieldText, loadingStep, gradeResult, pageError, submissions>>

(***************************************************************************)
(* Arithmetic helpers                                                      *)
(***************************************************************************)
\* max_score is carried as an integer number of halves: max_score = m / ScoreUnit.
ScoreUnit == 2

Max(a, b) == IF a >= b THEN a ELSE b
Min(a, b) == IF a <= b THEN a ELSE b

\* Math.floor(n / d) for d > 0.
Floor(n, d) == n \div d

\* Math.round(n / d) for d > 0: the nearest integer, halves rounded up.
Round(n, d) == (2 * n + d) \div (2 * d)

\* clamp(value, min, max)
clamp(value, min, max) == Min(max, Max(min, value))

(***************************************************************************)
(* clampCriterionRange                                                     *)
(***************************************************************************)
\* The range before the width check: rounding, the domain clamp and the
\* first ordering repair.
ClampDomain(range, m) ==
    LET maxAllowed == Max(0, Floor(m, ScoreUnit))
        low0  == Max(0, Round(range[1], 1))
        high0 == Max(0, Min(maxAllowed, Round(range[2], 1)))
    IN  <<IF low0 > high0 THEN high0 ELSE low0, high0>>

\* widthLimit = Math.max(2, Math.round(maxScore * 0.25))
WidthLimit(m) == Max(2, Round(m, 4 * ScoreUnit))

\* Mutant: the width check is left out.
clampCriterionRange_NoWidthCap(range, m) == ClampDomain(range, m)

\* Mutant: the range is recentred whether or not it is wider than widthLimit.
clampCriterionRange_AlwaysRecentre(range, m) ==
    LET maxAllowed == Max(0, Floor(m, ScoreUnit))
        d          == ClampDomain(range, m)
        widthLimit == WidthLimit(m)
        center     == Round(d[1] + d[2], 2)
        low2       == Max(0, center - Round(widthLimit, 2))
        high2      == Max(0, Min(maxAllowed, low2 + widthLimit))
    IN  <<IF low2 > high2 THEN high2 ELSE low2, high2>>

clampCriterionRange(range, m) ==
    LET maxAllowed == Max(0, Floor(m, ScoreUnit))
        d          == ClampDomain(range, m)
        low        == d[1]
        high       == d[2]
        widthLimit == WidthLimit(m)
    IN  IF high - low > widthLimit
        THEN LET center == Round(low + high, 2)
                 low2   == Max(0, center - Round(widthLimit, 2))
                 high2  == Max(0, Min(maxAllowed, low2 + widthLimit))
             IN  <<IF low2 > high2 THEN high2 ELSE low2, high2>>
        ELSE <<low, high>>

(***************************************************************************)
(* normalizeCriterionName                                                  *)
(*                                                                         *)
(* A name is a sequence of characters.  The characters of the model: the   *)
(* lower-case letters a b c, the upper-case letters A B, the fullwidth     *)
(* capital U+FF21 (NFKC maps it to A), the digit 1, the punctuation marks  *)
(* - and ., and the space.                                                 *)
(***************************************************************************)
LowerLetters == {"a", "b", "c"}
UpperLetters == {"A", "B"}
Digits       == {"1"}
Whitespace   == {" ", "\n", "\t", "\r"}

\* String.prototype.normalize("NFKC"), character by character.
NFKC(ch) == IF ch = "U+FF21" THEN "A" ELSE ch

\* String.prototype.toLowerCase, character by character.
ToLowerCase(ch) ==
    CASE ch = "A" -> "a"
      [] ch = "B" -> "b"
      [] OTHER    -> ch

\* \p{L} or \p{N}
IsLetterOrNumber(ch) == ch \in LowerLetters \cup UpperLetters \cup Digits

MapChars(Op(_), s) == [i \in 1..Len(s) |-> Op(s[i])]

\* replace(/[^\p{L}\p{N}]+/gu, " "): every maximal run of characters that are
\* neither letters nor numbers becomes one space.
RECURSIVE ReplaceNonAlnumRuns(_)
ReplaceNonAlnumRuns(s) ==
    IF s = <<>> THEN <<>>
    ELSE IF IsLetterOrNumber(Head(s)) THEN <<Head(s)>> \o ReplaceNonAlnumRuns(Tail(s))
    ELSE IF Len(s) >= 2 /\ ~IsLetterOrNumber(s[2]) THEN ReplaceNonAlnumRuns(Tail(s))
    ELSE <<" ">> \o ReplaceNonAlnumRuns(Tail(s))

\* String.prototype.trim
RECURSIVE TrimStart(_)
TrimStart(s) ==
    IF s # <<>> /\ Head(s) \in Whitespace THEN TrimStart(Tail(s)) ELSE s

RECURSIVE TrimEnd(_)
TrimEnd(s) ==
    IF s # <<>> /\ s[Len(s)] \in Whitespace THEN TrimEnd(SubSeq(s, 1, Len(s) - 1)) ELSE s

Trim(s) == TrimEnd(TrimStart(s))

\* replace(/\s+/g, " "): every maximal run of whitespace becomes one space.
RECURSIVE CollapseWhitespace(_)
CollapseWhitespace(s) ==
    IF s = <<>> THEN <<>>
    ELSE IF Head(s) \notin Whitespace THEN <<Head(s)>> \o CollapseWhitespace(Tail(s))
    ELSE IF Len(s) >= 2 /\ s[2] \in Whitespace THEN CollapseWhitespace(Tail(s))
    ELSE <<" ">> \o CollapseWhitespace(Tail(s))

\* Mutant: the result is not trimmed.
normalizeCriterionName_NoTrim(name) ==
    CollapseWhitespace(ReplaceNonAlnumRuns(MapChars(ToLowerCase, MapChars(NFKC, name))))

normalizeCriterionName(name) ==
    CollapseWhitespace(Trim(ReplaceNonAlnumRuns(MapChars(ToLowerCase, MapChars(NFKC, name)))))

(***************************************************************************)
(* normalizeText (parse.ts)                                                *)
(*                                                                         *)
(* parse.ts holds the function with two bodies: version 1 (lines 22-28)    *)
(* has the step replace(/[ \t]+\n/g, "\n"), version 2 (lines 103-108, the  *)
(* one next to ensureMeaningfulText, which the route handler relies on)    *)
(* does not.  The characters of the model: the letter a, the space, the    *)
(* tab, the carriage return and the line feed.                             *)
(***************************************************************************)
Blanks == {" ", "\t"}

\* replace(/\r\n/g, "\n"): one pass, left to right.
RECURSIVE ReplaceCrLf(_)
ReplaceCrLf(s) ==
    IF s = <<>> THEN <<>>
    ELSE IF Len(s) >= 2 /\ s[1] = "\r" /\ s[2] = "\n"
         THEN <<"\n">> \o ReplaceCrLf(SubSeq(s, 3, Len(s)))
    ELSE <<Head(s)>> \o ReplaceCrLf(Tail(s))

\* Does s start with zero or more blanks followed by a line feed?
RECURSIVE BlanksThenLf(_)
BlanksThenLf(s) ==
    /\ s # <<>>
    /\ \/ Head(s) = "\n"
       \/ Head(s) \in Blanks /\ BlanksThenLf(Tail(s))

\* replace(/[ \t]+\n/g, "\n"): a run of blanks right before a line feed goes.
RECURSIVE ReplaceBlanksBeforeLf(_)
ReplaceBlanksBeforeLf(s) ==
    IF s = <<>> THEN <<>>
    ELSE IF Head(s) \in Blanks /\ BlanksThenLf(Tail(s)) THEN ReplaceBlanksBeforeLf(Tail(s))
    ELSE <<Head(s)>> \o ReplaceBlanksBeforeLf(Tail(s))

\* replace(/\n{3,}/g, "\n\n"): a run of three or more line feeds becomes two.
RECURSIVE CollapseLineFeeds(_)
CollapseLineFeeds(s) ==
    IF s = <<>> THEN <<>>
    ELSE IF Len(s) >= 3 /\ s[1] = "\n" /\ s[2] = "\n" /\ s[3] = "\n"
         THEN CollapseLineFeeds(Tail(s))
    ELSE <<Head(s)>> \o CollapseLineFeeds(Tail(s))

\* parse.ts lines 22-28.
normalizeTextV1(t) == Trim(CollapseLineFeeds(ReplaceBlanksBeforeLf(ReplaceCrLf(t))))

\* parse.ts lines 103-108 (and again 203-208).
normalizeText(t) == Trim(CollapseLineFeeds(ReplaceCrLf(t)))

NormalizeTextOf(version, t) == IF version = 1 THEN normalizeTextV1(t) ELSE normalizeText(t)

(***************************************************************************)
(* buildFinalEvaluation                                                    *)
(*                                                                         *)
(* A rubric criterion is [name, max_score]; a score is [name,              *)
(* estimated_range, feedback].  scoreByName is a function from keys to     *)
(* scores.  A thrown Error("EVALUATION_FAILED") is the status              *)
(* "EVALUATION_FAILED".                                                    *)
(***************************************************************************)
EmptyMap == [k \in {} |-> 0]

MapSet(map, key, value) ==
    [k \in DOMAIN map \cup {key} |-> IF k = key THEN value ELSE map[k]]

\* Mutant: the score map is keyed by the raw display name.
RECURSIVE BuildScoreByName_RawKey(_, _, _)
BuildScoreByName_RawKey(scores, i, map) ==
    IF i > Len(scores) THEN [failed |-> FALSE, map |-> map]
    ELSE LET key == scores[i].name
         IN  IF key = <<>> \/ key \in DOMAIN map
             THEN [failed |-> TRUE, map |-> map]
             ELSE BuildScoreByName_RawKey(scores, i + 1, MapSet(map, key, scores[i]))

\* Mutant: every key is given the first score of the list.
RECURSIVE BuildScoreByName_FirstScore(_, _, _)
BuildScoreByName_FirstScore(scores, i, map) ==
    IF i > Len(scores) THEN [failed |-> FALSE, map |-> map]
    ELSE LET key == normalizeCriterionName(scores[i].name)
         IN  IF key = <<>> \/ key \in DOMAIN map
             THEN [failed |-> TRUE, map |-> map]
             ELSE BuildScoreByName_FirstScore(scores, i + 1, MapSet(map, key, scores[1]))

\* Lines 135-141: the loop over evaluation.criteria_scores, from entry i on.
RECURSIVE BuildScoreByName(_, _, _)
BuildScoreByName(scores, i, map) ==
    IF i > Len(scores) THEN [failed |-> FALSE, map |-> map]
    ELSE LET key == normalizeCriterionName(scores[i].name)
         IN  IF key = <<>> \/ key \in DOMAIN map
             THEN [failed |-> TRUE, map |-> map]
             ELSE BuildScoreByName(scores, i + 1, MapSet(map, key, scores[i]))

\* Mutant: rubricNameSet is not consulted.
RECURSIVE MapRubricCriteria_NoSeenCheck(_, _, _, _, _)
MapRubricCriteria_NoSeenCheck(rubricCriteria, scoreByName, i, rubricNameSet, out) ==
    IF i > Len(rubricCriteria) THEN [failed |-> FALSE, items |-> out]
    ELSE LET rubricCriterion == rubricCriteria[i]
             key == normalizeCriterionName(rubricCriterion.name)
         IN  IF key = <<>> \/ key \notin DOMAIN scoreByName
             THEN [failed |-> TRUE, items |-> out]
             ELSE LET matchedScore == scoreByName[key]
                      item == [name            |-> rubricCriterion.name,
                               max_score       |-> rubricCriterion.max_score,
                               estimated_range |-> clampCriterionRange(
                                                       matchedScore.estimated_range,
                                                       rubricCriterion.max_score),
                               feedback        |-> matchedScore.feedback]
                  IN  MapRubricCriteria_NoSeenCheck(rubricCriteria, scoreByName, i + 1,
                                                    rubricNameSet, Append(out, item))

\* Mutant: the output criterion carries the matched score's name.
RECURSIVE MapRubricCriteria_ScoreName(_, _, _, _, _)
MapRubricCriteria_ScoreName(rubricCriteria, scoreByName, i, rubricNameSet, out) ==
    IF i > Len(rubricCriteria) THEN [failed |-> FALSE, items |-> out]
    ELSE LET rubricCriterion == rubricCriteria[i]
             key == normalizeCriterionName(rubricCriterion.name)
         IN  IF key = <<>> \/ key \in rubricNameSet
             THEN [failed |-> TRUE, items |-> out]
             ELSE IF key \notin DOMAIN scoreByName
             THEN [failed |-> TRUE, items |-> out]
             ELSE LET matchedScore == scoreByName[key]
                      item == [name            |-> matchedScore.name,
                               max_score       |-> rubricCriterion.max_score,
                               estimated_range |-> clampCriterionRange(
                                                       matchedScore.estimated_range,
                                                       rubricCriterion.max_score),
                               feedback        |-> matchedScore.feedback]
                  IN  MapRubricCriteria_ScoreName(rubricCriteria, scoreByName, i + 1,
                                                  rubricNameSet \cup {key}, Append(out, item))

\* Lines 143-167: rubricCriteria.map(...), from criterion i on; out is the array
\* built so far, rubricNameSet the keys seen.
RECURSIVE MapRubricCriteria(_, _, _, _, _)
MapRubricCriteria(rubricCriteria, scoreByName, i, rubricNameSet, out) ==
    IF i > Len(rubricCriteria) THEN [failed |-> FALSE, items |-> out]
    ELSE LET rubricCriterion == rubricCriteria[i]
             key == normalizeCriterionName(rubricCriterion.name)
         IN  IF key = <<>> \/ key \in rubricNameSet
             THEN [failed |-> TRUE, items |-> out]
             ELSE IF key \notin DOMAIN scoreByName
             THEN [failed |-> TRUE, items |-> out]
             ELSE LET matchedScore == scoreByName[key]
                      item == [name            |-> rubricCriterion.name,
                               max_score       |-> rubricCriterion.max_score,
                               estimated_range |-> clampCriterionRange(
                                                       matchedScore.estimated_range,
                                                       rubricCriterion.max_score),
                               feedback        |-> matchedScore.feedback]
                  IN  MapRubricCriteria(rubricCriteria, scoreByName, i + 1,
                                        rubricNameSet \cup {key}, Append(out, item))

FailedCriteria == [status |-> "EVALUATION_FAILED", items |-> <<>>]

\* Mutant: the final length comparison is left out.
ReconcileCriteria_NoLengthCheck(rubric, eval) ==
    LET Checked(mapped) ==
            IF mapped.failed THEN FailedCriteria
            ELSE [status |-> "ok", items |-> mapped.items]
        Mapped(scores) ==
            IF scores.failed THEN FailedCriteria
            ELSE Checked(MapRubricCriteria(rubric.criteria, scores.map, 1, {}, <<>>))
    IN  Mapped(BuildScoreByName(eval.criteria_scores, 1, EmptyMap))

\* Lines 131-171: the reconciliation; the criteria array, or the failure thrown.
ReconcileCriteria(rubric, eval) ==
    LET Checked(mapped) ==
            IF mapped.failed THEN FailedCriteria
            ELSE IF Len(mapped.items) # Len(eval.criteria_scores) THEN FailedCriteria
            ELSE [status |-> "ok", items |-> mapped.items]
        Mapped(scores) ==
            IF scores.failed THEN FailedCriteria
            ELSE Checked(MapRubricCriteria(rubric.criteria, scores.map, 1, {}, <<>>))
    IN  Mapped(BuildScoreByName(eval.criteria_scores, 1, EmptyMap))

RECURSIVE SumOver(_, _)
SumOver(Op(_), s) == IF s = <<>> THEN 0 ELSE Op(Head(s)) + SumOver(Op, Tail(s))

RangeLow(criterion)  == criterion.estimated_range[1]
RangeHigh(criterion) == criterion.estimated_range[2]
MaxScoreOf(criterion) == criterion.max_score

\* Mutant: the scaled ends are not clamped to 0..100.
ScaleOverall_NoClamp(overallRawLow, overallRawHigh, rubricTotal) ==
    LET lo0 == Round(overallRawLow * 100 * ScoreUnit, rubricTotal)
        hi0 == Round(overallRawHigh * 100 * ScoreUnit, rubricTotal)
        scaledLow  == IF lo0 > hi0 THEN hi0 ELSE lo0
        scaledHigh == IF lo0 > hi0 THEN lo0 ELSE hi0
    IN  IF scaledHigh - scaledLow > 25
        THEN LET center == Round(scaledLow + scaledHigh, 2)
                 low2   == Max(0, center - 12)
                 high2  == Min(100, low2 + 25)
             IN  <<IF low2 > high2 THEN high2 ELSE low2, high2>>
        ELSE <<scaledLow, scaledHigh>>

\* Mutant: the width check compares with 26 (off by one).
ScaleOverall_CapOffByOne(overallRawLow, overallRawHigh, rubricTotal) ==
    LET lo0 == clamp(Round(overallRawLow * 100 * ScoreUnit, rubricTotal), 0, 100)
        hi0 == clamp(Round(overallRawHigh * 100 * ScoreUnit, rubricTotal), 0, 100)
        scaledLow  == IF lo0 > hi0 THEN hi0 ELSE lo0
        scaledHigh == IF lo0 > hi0 THEN lo0 ELSE hi0
    IN  IF scaledHigh - scaledLow > 26
        THEN LET center == Round(scaledLow + scaledHigh, 2)
                 low2   == Max(0, center - 12)
                 high2  == Min(100, low2 + 25)
             IN  <<IF low2 > high2 THEN high2 ELSE low2, high2>>
        ELSE <<scaledLow, scaledHigh>>

\* Mutant: a range of width 25 is recentred as well (>= for >).
ScaleOverall_CapAtEqual(overallRawLow, overallRawHigh, rubricTotal) ==
    LET lo0 == clamp(Round(overallRawLow * 100 * ScoreUnit, rubricTotal), 0, 100)
        hi0 == clamp(Round(overallRawHigh * 100 * ScoreUnit, rubricTotal), 0, 100)
        scaledLow  == IF lo0 > hi0 THEN hi0 ELSE lo0
        scaledHigh == IF lo0 > hi0 THEN lo0 ELSE hi0
    IN  IF scaledHigh - scaledLow >= 25
        THEN LET center == Round(scaledLow + scaledHigh, 2)
                 low2   == Max(0, center - 12)
                 high2  == Min(100, low2 + 25)
             IN  <<IF low2 > high2 THEN high2 ELSE low2, high2>>
        ELSE <<scaledLow, scaledHigh>>

\* Mutant: the centre is rounded down (Math.floor for Math.round).
ScaleOverall_CenterFloor(overallRawLow, overallRawHigh, rubricTotal) ==
    LET lo0 == clamp(Round(overallRawLow * 100 * ScoreUnit, rubricTotal), 0, 100)
        hi0 == clamp(Round(overallRawHigh * 100 * ScoreUnit, rubricTotal), 0, 100)
        scaledLow  == IF lo0 > hi0 THEN hi0 ELSE lo0
        scaledHigh == IF lo0 > hi0 THEN lo0 ELSE hi0
    IN  IF scaledHigh - scaledLow > 25
        THEN LET center == Floor(scaledLow + scaledHigh, 2)
                 low2   == Max(0, center - 12)
                 high2  == Min(100, low2 + 25)
             IN  <<IF low2 > high2 THEN high2 ELSE low2, high2>>
        ELSE <<scaledLow, scaledHigh>>

\* Lines 181-195: the scaling to 0..100 and the width cap.  rubricTotal is in
\* units of 1/ScoreUnit, so raw / rubricTotal * 100 = raw * 100 * ScoreUnit / total.
\* The quotient is rounded exactly; the double-precision product of the code may
\* fall just below an exact half and round one lower there.
ScaleOverall(overallRawLow, overallRawHigh, rubricTotal) ==
    LET lo0 == clamp(Round(overallRawLow * 100 * ScoreUnit, rubricTotal), 0, 100)
        hi0 == clamp(Round(overallRawHigh * 100 * ScoreUnit, rubricTotal), 0, 100)
        scaledLow  == IF lo0 > hi0 THEN hi0 ELSE lo0
        scaledHigh == IF lo0 > hi0 THEN lo0 ELSE hi0
    IN  IF scaledHigh - scaledLow > 25
        THEN LET center == Round(scaledLow + scaledHigh, 2)
                 low2   == Max(0, center - 12)
                 high2  == Min(100, low2 + 25)
             IN  <<IF low2 > high2 THEN high2 ELSE low2, high2>>
        ELSE <<scaledLow, scaledHigh>>

FailedReport == [status |-> "EVALUATION_FAILED"]

\* Mutant: top_improvements is passed on whole (no slice(0, 3)).
buildFinalEvaluation_NoSlice(rubric, eval) ==
    LET Report(reconciled) ==
            IF reconciled.status # "ok" THEN FailedReport
            ELSE LET overallRawLow  == SumOver(RangeLow, reconciled.items)
                     overallRawHigh == SumOver(RangeHigh, reconciled.items)
                     rubricTotal    == SumOver(MaxScoreOf, rubric.criteria)
                 IN  IF rubricTotal <= 0 THEN FailedReport
                     ELSE IF Len(eval.top_improvements) < 3 THEN FailedReport
                     ELSE [status           |-> "ok",
                           title            |-> "Evaluation Summary",
                           overall_range    |-> ScaleOverall(overallRawLow, overallRawHigh,
                                                             rubricTotal),
                           summary          |-> eval.summary,
                           top_improvements |-> eval.top_improvements,
                           criteria         |-> reconciled.items]
        Outcome(reconciled) == [criteria |-> reconciled, report |-> Report(reconciled)]
    IN  Outcome(ReconcileCriteria(rubric, eval))

\* The value is [criteria, report]: the criteria array as it stands when the
\* function returns or throws, and the report returned or the error thrown.
\* Every max_score of the model is finite, so Number.isFinite(rubricTotal) holds
\* and line 177 is the test rubricTotal <= 0.
buildFinalEvaluation(rubric, eval) ==
    LET Report(reconciled) ==
            IF reconciled.status # "ok" THEN FailedReport
            ELSE LET overallRawLow  == SumOver(RangeLow, reconciled.items)
                     overallRawHigh == SumOver(RangeHigh, reconciled.items)
                     rubricTotal    == SumOver(MaxScoreOf, rubric.criteria)
                 IN  IF rubricTotal <= 0 THEN FailedReport
                     ELSE IF Len(eval.top_improvements) < 3 THEN FailedReport
                     ELSE [status           |-> "ok",
                           title            |-> "Evaluation Summary",
                           overall_range    |-> ScaleOverall(overallRawLow, overallRawHigh,
                                                             rubricTotal),
                           summary          |-> eval.summary,
                           top_improvements |-> SubSeq(eval.top_improvements, 1, 3),
                           criteria         |-> reconciled.items]
        Outcome(reconciled) == [criteria |-> reconciled, report |-> Report(reconciled)]
    IN  Outcome(ReconcileCriteria(rubric, eval))

(***************************************************************************)
(* JSON.parse                                                              *)
(*                                                                         *)
(* A text is a sequence of characters: the structural characters           *)
(* { } [ ] : , the double quote, the space (any JSON whitespace), the      *)
(* backquote, the digit 1, the letter a (any other character), and the     *)
(* words json and JSON, each carried as one element.  Escapes in strings   *)
(* are not modelled (no backslash among the characters).                   *)
(*                                                                         *)
(* The Parse operators take a position in the text and give the position   *)
(* after the parsed item, or 0 for a SyntaxError.  The parsed value is     *)
(* carried as the text without its insignificant whitespace.               *)
(***************************************************************************)
Quote == "\""

RECURSIVE SkipWhitespace(_, _)
SkipWhitespace(s, i) ==
    IF i <= Len(s) /\ s[i] \in Whitespace THEN SkipWhitespace(s, i + 1) ELSE i

\* The string that opens at i (a double quote) ends at the next double quote.
RECURSIVE StringEnd(_, _)
StringEnd(s, j) ==
    IF j > Len(s) THEN 0
    ELSE IF s[j] = Quote THEN j + 1
    ELSE StringEnd(s, j + 1)

ParseString(s, i) ==
    IF i <= Len(s) /\ s[i] = Quote THEN StringEnd(s, i + 1) ELSE 0

RECURSIVE ParseNumber(_, _)
ParseNumber(s, i) ==
    IF i + 1 <= Len(s) /\ s[i + 1] \in Digits THEN ParseNumber(s, i + 1) ELSE i + 1

RECURSIVE ParseValue(_, _)
RECURSIVE ParseMembers(_, _)
RECURSIVE ParseElements(_, _)

\* i is the position of the first character of the value.
ParseValue(s, i) ==
    IF i > Len(s) THEN 0
    ELSE CASE s[i] = "{"     -> LET j == SkipWhitespace(s, i + 1)
                                IN  IF j <= Len(s) /\ s[j] = "}" THEN j + 1
                                    ELSE ParseMembers(s, j)
           [] s[i] = "["     -> LET j == SkipWhitespace(s, i + 1)
                                IN  IF j <= Len(s) /\ s[j] = "]" THEN j + 1
                                    ELSE ParseElements(s, j)
           [] s[i] = Quote   -> ParseString(s, i)
           [] s[i] \in Digits -> ParseNumber(s, i)
           [] s[i] \in {"null", "true"} -> i + 1
           [] OTHER          -> 0

\* i is the position of the key of a member; the object ends after the last one.
ParseMembers(s, i) ==
    LET afterKey == ParseString(s, i)
        colon    == SkipWhitespace(s, afterKey)
    IN  IF afterKey = 0 \/ colon > Len(s) \/ s[colon] # ":" THEN 0
        ELSE LET afterValue == ParseValue(s, SkipWhitespace(s, colon + 1))
                 next       == SkipWhitespace(s, afterValue)
             IN  IF afterValue = 0 \/ next > Len(s) THEN 0
                 ELSE IF s[next] = "}" THEN next + 1
                 ELSE IF s[next] = "," THEN ParseMembers(s, SkipWhitespace(s, next + 1))
                 ELSE 0

\* i is the position of an element; the array ends after the last one.
ParseElements(s, i) ==
    LET afterValue == ParseValue(s, i)
        next       == SkipWhitespace(s, afterValue)
    IN  IF afterValue = 0 \/ next > Len(s) THEN 0
        ELSE IF s[next] = "]" THEN next + 1
        ELSE IF s[next] = "," THEN ParseElements(s, SkipWhitespace(s, next + 1))
        ELSE 0

\* The text without the whitespace outside its strings.
RECURSIVE StripInsignificant(_, _)
StripInsignificant(s, inString) ==
    IF s = <<>> THEN <<>>
    ELSE IF Head(s) = Quote THEN <<Quote>> \o StripInsignificant(Tail(s), ~inString)
    ELSE IF Head(s) \in Whitespace /\ ~inString THEN StripInsignificant(Tail(s), inString)
    ELSE <<Head(s)>> \o StripInsignificant(Tail(s), inString)

JsonKind(ch) ==
    CASE ch = "{"   -> "object"
      [] ch = "["   -> "array"
      [] ch = Quote -> "string"
      [] ch = "null" -> "null"
      [] ch = "true" -> "boolean"
      [] OTHER      -> "number"

SyntaxError == [ok |-> FALSE, kind |-> "none", value |-> <<>>]

\* JSON.parse(s): one value with whitespace around it, or a SyntaxError.
JSONParse(s) ==
    LET start == SkipWhitespace(s, 1)
        end   == ParseValue(s, start)
    IN  IF end = 0 \/ SkipWhitespace(s, end) # Len(s) + 1 THEN SyntaxError
        ELSE [ok |-> TRUE, kind |-> JsonKind(s[start]), value |-> StripInsignificant(s, FALSE)]

(***************************************************************************)
(* extractJsonCandidate and parseModelJson                                 *)
(***************************************************************************)
Backquote == "BQ"                   \* the character ` (one backquote)
LangTags  == {"json", "JSON"}       \* (?:json)? under the i flag

IsFenceAt(s, i) ==
    /\ i + 2 <= Len(s)
    /\ s[i] = Backquote /\ s[i + 1] = Backquote /\ s[i + 2] = Backquote

\* The first position at or after i where ``` stands, or 0.
RECURSIVE FirstFence(_, _)
FirstFence(s, i) ==
    IF i + 2 > Len(s) THEN 0
    ELSE IF IsFenceAt(s, i) THEN i
    ELSE FirstFence(s, i + 1)

NoMatch == [matched |-> FALSE, group |-> <<>>]

\* trimmed.match(/```(?:json)?\s*([\s\S]*?)\s*```/i): the match starts at the
\* first ```; the optional tag and the whitespace after it are consumed
\* greedily; the lazy group ends before the whitespace that precedes the next
\* ```.  Without a later ``` there is no match at any start.
FencedMatch(s) ==
    LET open == FirstFence(s, 1)
    IN  IF open = 0 THEN NoMatch
        ELSE LET afterOpen == open + 3
                 afterTag  == IF afterOpen <= Len(s) /\ s[afterOpen] \in LangTags
                              THEN afterOpen + 1 ELSE afterOpen
                 groupFrom == SkipWhitespace(s, afterTag)
                 close     == FirstFence(s, groupFrom)
             IN  IF close = 0 THEN NoMatch
                 ELSE [matched |-> TRUE,
                       group   |-> TrimEnd(SubSeq(s, groupFrom, close - 1))]

\* indexOf / lastIndexOf, as positions 1..Len(s), 0 when absent.
RECURSIVE IndexFrom(_, _, _)
IndexFrom(s, ch, i) ==
    IF i > Len(s) THEN 0 ELSE IF s[i] = ch THEN i ELSE IndexFrom(s, ch, i + 1)

RECURSIVE LastIndexFrom(_, _, _)
LastIndexFrom(s, ch, i) ==
    IF i < 1 THEN 0 ELSE IF s[i] = ch THEN i ELSE LastIndexFrom(s, ch, i - 1)

IndexOf(s, ch)     == IndexFrom(s, ch, 1)
LastIndexOf(s, ch) == LastIndexFrom(s, ch, Len(s))

\* null is [found |-> FALSE]; a candidate string is [found |-> TRUE, text |-> ...].
NullCandidate == [found |-> FALSE, text |-> <<>>]
Candidate(t)  == [found |-> TRUE, text |-> t]

\* Lines 23-35: the slices and the fallback.
SliceCandidate(trimmed) ==
    LET objectStart == IndexOf(trimmed, "{")
        objectEnd   == LastIndexOf(trimmed, "}")
        arrayStart  == IndexOf(trimmed, "[")
        arrayEnd    == LastIndexOf(trimmed, "]")
    IN  IF objectStart # 0 /\ objectEnd > objectStart
        THEN Candidate(SubSeq(trimmed, objectStart, objectEnd))
        ELSE IF arrayStart # 0 /\ arrayEnd > arrayStart
        THEN Candidate(SubSeq(trimmed, arrayStart, arrayEnd))
        ELSE Candidate(trimmed)

\* Mutant: the braces are sliced before the fenced block is looked for.
extractJsonCandidate_SliceFirst(text) ==
    LET trimmed     == Trim(text)
        objectStart == IndexOf(trimmed, "{")
        objectEnd   == LastIndexOf(trimmed, "}")
        fencedMatch == FencedMatch(trimmed)
    IN  IF trimmed = <<>> THEN NullCandidate
        ELSE IF objectStart # 0 /\ objectEnd > objectStart
        THEN Candidate(SubSeq(trimmed, objectStart, objectEnd))
        ELSE IF fencedMatch.matched /\ fencedMatch.group # <<>>
        THEN Candidate(Trim(fencedMatch.group))
        ELSE SliceCandidate(trimmed)

extractJsonCandidate(text) ==
    LET trimmed     == Trim(text)
        fencedMatch == FencedMatch(trimmed)
    IN  IF trimmed = <<>> THEN NullCandidate
        ELSE IF fencedMatch.matched /\ fencedMatch.group # <<>>
        THEN Candidate(Trim(fencedMatch.group))
        ELSE SliceCandidate(trimmed)

ParseFailed == [status |-> "MODEL_JSON_PARSE_FAILED", value |-> <<>>]

\* Mutant: what JSON.parse returns is returned, whatever its type.
parseModelJson_AnyValue(text) ==
    LET candidate == extractJsonCandidate(text)
    IN  IF ~candidate.found \/ candidate.text = <<>> THEN ParseFailed
        ELSE LET result == JSONParse(candidate.text)
             IN  IF ~result.ok THEN ParseFailed
                 ELSE [status |-> "ok", value |-> result.value]

parseModelJson(text) ==
    LET candidate == extractJsonCandidate(text)
    IN  IF ~candidate.found \/ candidate.text = <<>> THEN ParseFailed
        ELSE LET result == JSONParse(candidate.text)
             IN  IF ~result.ok THEN ParseFailed
                 ELSE IF result.kind # "object" THEN ParseFailed
                 ELSE [status |-> "ok", value |-> result.value]

(***************************************************************************)
(* Specification SpecClamp: clampCriterionRange applied to every raw       *)
(* integer pair and max_score of the bounded input sets, then applied to   *)
(* its own result.                                                         *)
(***************************************************************************)
MaxRaw == 14            \* raw endpoints range over MinRaw..MaxRaw
MinRaw == 0 - 2
MaxScoreUnits == 40     \* max_score ranges over MinScoreUnits/2 .. MaxScoreUnits/2
MinScoreUnits == 0 - 3

NoRange == <<>>

\* The variables of the other computations while they are not under study.
NoCriteria == [status |-> "none", items |-> <<>>]
NoReport   == [status |-> "none"]

ClampIdle ==
    /\ estimatedRange = NoRange
    /\ maxScore = 0
    /\ clamped = NoRange
    /\ reclamped = NoRange

BuildIdle ==
    /\ structuredRubric = [criteria |-> <<>>]
    /\ evaluation = [summary |-> "", criteria_scores |-> <<>>, top_improvements |-> <<>>]
    /\ criteria = NoCriteria
    /\ finalEvaluation = NoReport

NoParse == [status |-> "none", value |-> <<>>]

JsonIdle ==
    /\ outputText = <<>>
    /\ parsed = NoParse

NoFormData == [rubric |-> "none", assignment |-> "none",
               rubricText |-> "none", assignmentText |-> "none"]
NoResponse == [status |-> 0, body |-> [error |-> "none"]]

PostIdle ==
    /\ formData = NoFormData
    /\ modelEnv = [STRUCTURE_MODEL |-> FALSE, EVALUATION_MODEL |-> FALSE]
    /\ modelOutput = [STRUCTURE_MODEL |-> 0, EVALUATION_MODEL |-> 0]
    /\ calls = <<>>
    /\ response = NoResponse

NoText == <<>>

TextIdle ==
    /\ textVersion = 0
    /\ inputText = NoText
    /\ normalizedText = NoText
    /\ renormalizedText = NoText

Fields == {"rubric", "assignment"}

\* A call of handleSubmit that is not running: no position, no timer of its
\* stepTimers pending, no form data.
NoSubmission == [pc |-> "none", stepTimers |-> <<>>, ok |-> FALSE, formData |-> {}]

MaxSubmissions == 2     \* calls of handleSubmit that may be running at once

\* The page as useState builds it (lines 122-136).
PageIdle ==
    /\ inputMode = [f \in Fields |-> "file"]
    /\ inputFile = [f \in Fields |-> "null"]
    /\ fieldText = [f \in Fields |-> <<>>]
    /\ loadingStep = "idle"
    /\ gradeResult = "null"
    /\ pageError = ""
    /\ submissions = [s \in 1..MaxSubmissions |-> NoSubmission]

InitClamp ==
    /\ pc = "clamp"
    /\ estimatedRange \in (MinRaw..MaxRaw) \X (MinRaw..MaxRaw)
    /\ maxScore \in MinScoreUnits..MaxScoreUnits
    /\ clamped = NoRange
    /\ reclamped = NoRange
    /\ BuildIdle
    /\ JsonIdle
    /\ PostIdle
    /\ TextIdle
    /\ PageIdle

Clamp ==
    /\ pc = "clamp"
    /\ clamped' = clampCriterionRange(estimatedRange, maxScore)
    /\ pc' = "reclamp"
    /\ UNCHANGED <<estimatedRange, maxScore, reclamped>>
    /\ UNCHANGED <<buildVars, jsonVars, textVars, pageVars, postVars>>

Reclamp ==
    /\ pc = "reclamp"
    /\ reclamped' = clampCriterionRange(clamped, maxScore)
    /\ pc' = "clampDone"
    /\ UNCHANGED <<estimatedRange, maxScore, clamped>>
    /\ UNCHANGED <<buildVars, jsonVars, textVars, pageVars, postVars>>

NextClamp == Clamp \/ Reclamp

SpecClamp == InitClamp /\ [][NextClamp]_vars

(***************************************************************************)
(* Specification SpecBuild: buildFinalEvaluation applied to the rubrics and *)
(* evaluations of five input families.                                     *)
(*   names:   rubrics of MinCriteria..MaxCriteria criteria and evaluations *)
(*            of 1..MaxCriteria scores, every name drawn from five samples *)
(*            (names with equal keys, an all-punctuation name); each score *)
(*            carries its position as feedback and a range set by its      *)
(*            position;                                                    *)
(*   numbers: rubrics of MinCriteria criteria with distinct names, scored  *)
(*            in rubric order, every max_score drawn from five values and  *)
(*            every raw range a pair of -1..MaxBuildRaw;                   *)
(*   top:     one rubric scored in rubric order, top_improvements every    *)
(*            array of 0..MaxTopImprovements items among four (the         *)
(*            function tests the length itself, line 197);                 *)
(*   wide:    one rubric of six criteria on narrow scales, every range     *)
(*            drawn from five pairs;                                       *)
(*   hundred: rubrics of two criteria whose max_scores total 100, every   *)
(*            raw range a pair of five endpoints.                          *)
(***************************************************************************)
MinCriteria == 2        \* RubricSchema: criteria has at least 2 entries
MaxCriteria == 3

MaxBuildRaw == 5

SeqsOf(S, lo, hi) == UNION { [1..n -> S] : n \in lo..hi }

NameCriterion(name)  == [name |-> name, max_score |-> 4 * ScoreUnit]
NameScore(names, i)  == [name |-> names[i], estimated_range |-> <<i, i + 1>>, feedback |-> i]

TopThree == <<"t1", "t2", "t3">>

InitBuildNames ==
    LET NameSamples ==
            { <<"a">>,                  \* key "a"
              <<"A", " ">>,             \* key "a": differs in case and spacing
              <<"b">>,                  \* key "b"
              <<"U+FF21", "-", "b">>,   \* key "a b": compatibility form and punctuation
              <<"-">> }                 \* key "": all punctuation
    IN
    \E rubricNames \in SeqsOf(NameSamples, MinCriteria, MaxCriteria) :
    \E scoreNames \in SeqsOf(NameSamples, 1, MaxCriteria) :
        /\ structuredRubric =
               [criteria |-> [i \in 1..Len(rubricNames) |-> NameCriterion(rubricNames[i])]]
        /\ evaluation =
               [summary          |-> "s",
                criteria_scores  |-> [i \in 1..Len(scoreNames) |-> NameScore(scoreNames, i)],
                top_improvements |-> TopThree]

NumberNames == <<(<<"a">>), (<<"b">>)>>

InitBuildNumbers ==
    LET BuildEndpoints   == (0 - 1)..MaxBuildRaw
        BuildScoreValues == {0 - 2, 1, 3, 8, 20}     \* -1, 0.5, 1.5, 4, 10
    IN
    \E scores \in [1..MinCriteria -> BuildScoreValues] :
    \E ranges \in [1..MinCriteria -> BuildEndpoints \X BuildEndpoints] :
        /\ structuredRubric =
               [criteria |-> [i \in 1..MinCriteria |->
                                 [name |-> NumberNames[i], max_score |-> scores[i]]]]
        /\ evaluation =
               [summary          |-> "s",
                criteria_scores  |-> [i \in 1..MinCriteria |->
                                         [name            |-> NumberNames[i],
                                          estimated_range |-> ranges[i],
                                          feedback        |-> i]],
                top_improvements |-> TopThree]

MaxTopImprovements == 5     \* top_improvements: z.array(z.string()).min(3).max(5)

InitBuildTop ==
    \E top \in SeqsOf({"t1", "t2", "t3", "t4"}, 0, MaxTopImprovements) :
        /\ structuredRubric =
               [criteria |-> [i \in 1..MinCriteria |-> NameCriterion(NumberNames[i])]]
        /\ evaluation =
               [summary          |-> "s",
                criteria_scores  |-> [i \in 1..MinCriteria |-> NameScore(NumberNames, i)],
                top_improvements |-> top]

\* Six criteria, five of max_score 2 and one of max_score 0.5 (a total of
\* 10.5), scored in rubric order: the narrow scales let the summed range be as
\* wide as the whole scale.
InitBuildWide ==
    LET WideNames  == <<(<<"a">>), (<<"b">>), (<<"c">>),
                        (<<"a", "1">>), (<<"b", "1">>), (<<"c", "1">>)>>
        WideScores == [i \in 1..6 |-> IF i <= 5 THEN 2 * ScoreUnit ELSE ScoreUnit \div 2]
        WideRanges == {<<0, 0>>, <<0, 1>>, <<0, 2>>, <<1, 2>>, <<2, 2>>}
    IN
    \E ranges \in [1..5 -> WideRanges] :
        /\ structuredRubric =
               [criteria |-> [i \in 1..6 |->
                                 [name |-> WideNames[i], max_score |-> WideScores[i]]]]
        /\ evaluation =
               [summary          |-> "s",
                criteria_scores  |-> [i \in 1..6 |->
                                         [name            |-> WideNames[i],
                                          estimated_range |-> IF i <= 5 THEN ranges[i]
                                                              ELSE <<0, 0>>,
                                          feedback        |-> i]],
                top_improvements |-> TopThree]

\* Rubrics of two criteria whose max_scores total 100, scored in rubric order.
InitBuildHundred ==
    LET HundredScores    == { <<50 * ScoreUnit, 50 * ScoreUnit>>,
                              <<60 * ScoreUnit, 40 * ScoreUnit>> }
        HundredEndpoints == {30, 35, 40, 45, 50}
    IN
    \E scores \in HundredScores :
    \E ranges \in [1..2 -> HundredEndpoints \X HundredEndpoints] :
        /\ structuredRubric =
               [criteria |-> [i \in 1..2 |->
                                 [name |-> NumberNames[i], max_score |-> scores[i]]]]
        /\ evaluation =
               [summary          |-> "s",
                criteria_scores  |-> [i \in 1..2 |->
                                         [name            |-> NumberNames[i],
                                          estimated_range |-> ranges[i],
                                          feedback        |-> i]],
                top_improvements |-> TopThree]

InitBuild ==
    /\ pc = "build"
    /\ ClampIdle
    /\ \/ InitBuildNames
       \/ InitBuildNumbers
       \/ InitBuildTop
       \/ InitBuildWide
       \/ InitBuildHundred
    /\ criteria = NoCriteria
    /\ finalEvaluation = NoReport
    /\ JsonIdle
    /\ PostIdle
    /\ TextIdle
    /\ PageIdle

\* One call of buildFinalEvaluation(structuredRubric, evaluation).
BuildFinalEvaluation ==
    /\ pc = "build"
    /\ \E result \in {buildFinalEvaluation(structuredRubric, evaluation)} :
           /\ criteria' = result.criteria
           /\ finalEvaluation' = result.report
    /\ pc' = "buildDone"
    /\ UNCHANGED <<structuredRubric, evaluation>>
    /\ UNCHANGED <<clampVars, jsonVars, textVars, pageVars, postVars>>

NextBuild == BuildFinalEvaluation

SpecBuild == InitBuild /\ [][NextBuild]_vars

RubricKeys == [i \in 1..Len(structuredRubric.criteria) |->
                  normalizeCriterionName(structuredRubric.criteria[i].name)]
ScoreKeys  == [i \in 1..Len(evaluation.criteria_scores) |->
                  normalizeCriterionName(evaluation.criteria_scores[i].name)]

Distinct(keys) == \A i, j \in 1..Len(keys) : keys[i] = keys[j] => i = j
NonEmpty(keys) == \A i \in 1..Len(keys) : keys[i] # <<>>
KeySet(keys)   == { keys[i] : i \in 1..Len(keys) }

(***************************************************************************)
(* Specification SpecJson: parseModelJson applied to the model texts of    *)
(* three input families.                                                   *)
(*   short:     every text of at most MaxTextLen characters among nine;    *)
(*   documents: JSON documents (objects, arrays, strings, numbers, null,   *)
(*              true; a literal stands as one character) whose             *)
(*              strings are made of at most MaxStringPieces pieces, among  *)
(*              them braces, brackets and code-fence markers, with or      *)
(*              without whitespace around the document;                    *)
(*   fenced:    prose, a fenced block with or without the json tag, prose; *)
(*              each prose is a text of at most MaxProseLen characters     *)
(*              among five.                                                *)
(***************************************************************************)
MaxTextLen      == 4
MaxStringPieces == 2
MaxProseLen     == 2

Fence == <<Backquote, Backquote, Backquote>>

RECURSIVE Concat(_)
Concat(pieces) == IF pieces = <<>> THEN <<>> ELSE Head(pieces) \o Concat(Tail(pieces))

Str(content) == <<Quote>> \o content \o <<Quote>>
Member(v)    == <<"{">> \o Str(<<"a">>) \o <<":">> \o v \o <<"}">>

Padding == { <<>>, <<" ">> }

InitShort ==
    LET ShortChars == {"{", "}", "[", "]", Quote, Backquote, " ", "1", "a"}
    IN  outputText \in SeqsOf(ShortChars, 0, MaxTextLen)

InitDocuments ==
    LET StringPieces   == { <<"a">>, <<"{">>, <<"}">>, <<"[">>, <<"]">>, <<" ">>, Fence }
        StringContents == { Concat(ps) : ps \in SeqsOf(StringPieces, 0, MaxStringPieces) }
                              \cup { Fence \o <<"a">> \o Fence, Fence \o <<"json">> \o Fence }
        StringValues   == { Str(c) : c \in StringContents }
        Values         == StringValues \cup { <<"1">>, <<"[", "]">>, <<"{", "}">>,
                                               <<"null">>, <<"true">> }
                              \cup { <<"[">> \o v \o <<",", "1", "]">> : v \in StringValues }
        Documents      == Values \cup { Member(v) : v \in Values }
                              \cup { <<"{", " ">> \o Str(<<>>) \o <<" ", ":", " ">> \o v \o <<" ", "}">> :
                                       v \in StringValues }
    IN
    \E doc \in Documents : \E pad \in Padding :
        outputText = pad \o doc \o pad

InitFenced ==
    LET ProseChars  == {"a", " ", "{", "}", Backquote}
        FencedInner ==
            { <<"{", "}">>,
              Member(<<"1">>),
              Member(Str(<<"}", "{">>)),
              <<"{", " ">> \o Str(<<"a">>) \o <<" ", ":", "[", "1", "]", "}">>,
              <<"[", "1", "]">>,            \* valid JSON, no object
              <<"{", "a", "}">>,            \* no JSON
              <<"a">>,                      \* no JSON, no brace
              Member(Str(Fence)),           \* an object that holds a fence marker
              <<>> }                        \* an empty block
    IN
    \E before \in SeqsOf(ProseChars, 0, MaxProseLen) :
    \E after \in SeqsOf(ProseChars, 0, MaxProseLen) :
    \E tag \in {<<>>, <<"json">>} :
    \E pad \in Padding :
    \E inner \in FencedInner :
        outputText = before \o Fence \o tag \o pad \o inner \o pad \o Fence \o after

InitJson ==
    /\ pc = "parse"
    /\ ClampIdle
    /\ BuildIdle
    /\ InitShort \/ InitDocuments \/ InitFenced
    /\ parsed = NoParse
    /\ PostIdle
    /\ TextIdle
    /\ PageIdle

\* One call of parseModelJson(outputText) (callJsonModel, line 81).
ParseModelJson ==
    /\ pc = "parse"
    /\ parsed' = parseModelJson(outputText)
    /\ pc' = "parseDone"
    /\ UNCHANGED outputText
    /\ UNCHANGED <<clampVars, buildVars, postVars, textVars, pageVars>>

NextJson == ParseModelJson

SpecJson == InitJson /\ [][NextJson]_vars

(***************************************************************************)
(* Parsed model results                                                    *)
(*                                                                         *)
(* The object parseModelJson returns is a JSON value, a record with its    *)
(* type: a number carries its value num in units of 1/ScoreUnit, a string  *)
(* its characters str, an array the sequence items of its elements, an     *)
(* object the function fields from its keys to their values.  undefined    *)
(* (a key that is absent) is a value of its own type.                      *)
(***************************************************************************)
JNumber(n)       == [type |-> "number", num |-> n]
JString(s)       == [type |-> "string", str |-> s]
JBoolean(b)      == [type |-> "boolean", bool |-> b]
JNull            == [type |-> "null"]
JUndefined       == [type |-> "undefined"]
JArray(elements) == [type |-> "array", items |-> elements]
JObject(fields)  == [type |-> "object", fields |-> fields]

\* obj[key], undefined when obj is no object or has no such key.
Field(obj, key) ==
    IF obj.type = "object" /\ key \in DOMAIN obj.fields THEN obj.fields[key] ELSE JUndefined

\* A function that returns a value or throws an Error with a message.
Returned(value) == [threw |-> FALSE, error |-> "", value |-> value]
Thrown(message) == [threw |-> TRUE, error |-> message]

(***************************************************************************)
(* callJsonModel.  env tells whether process.env[modelEnvKey] is set;      *)
(* output is the answer of the model service: an error of the service, or  *)
(* an output_text, carried as what parseModelJson makes of it (the error   *)
(* MODEL_JSON_PARSE_FAILED, or the object).                                *)
(***************************************************************************)
callJsonModel(modelEnvKey, env, output) ==
    IF ~env[modelEnvKey]
    THEN Thrown(IF modelEnvKey = "STRUCTURE_MODEL" THEN "STRUCTURE_MODEL_MISSING"
                ELSE "EVALUATION_MODEL_MISSING")
    ELSE IF output.kind = "serviceError" THEN Thrown("SERVICE_ERROR")
    ELSE IF output.kind = "unparseable" THEN Thrown("MODEL_JSON_PARSE_FAILED")
    ELSE Returned(output.value)

(***************************************************************************)
(* RubricSchema and structureRubric                                        *)
(***************************************************************************)
SafeParseFailed == [success |-> FALSE, data |-> <<>>]

\* RubricSchema.safeParse(v).  z.object strips the keys it does not know:
\* data holds the known keys only.
RubricSchemaSafeParse(v) ==
    LET list == Field(v, "criteria")
        \* z.object({ name: z.string(), max_score: z.number().positive(),
        \*            description: z.string() })
        IsRubricCriterion(item) ==
            /\ item.type = "object"
            /\ Field(item, "name").type = "string"
            /\ Field(item, "max_score").type = "number"
            /\ Field(item, "max_score").num > 0
            /\ Field(item, "description").type = "string"
    IN  IF /\ list.type = "array"
           /\ Len(list.items) >= MinCriteria
           /\ \A i \in 1..Len(list.items) : IsRubricCriterion(list.items[i])
        THEN [success |-> TRUE,
              data |-> [criteria |-> [i \in 1..Len(list.items) |->
                           [name        |-> Field(list.items[i], "name").str,
                            max_score   |-> Field(list.items[i], "max_score").num,
                            description |-> Field(list.items[i], "description").str]]]]
        ELSE SafeParseFailed

\* structureRubric, lines 20-31; modelResult is the outcome of callStructureModel.
structureRubric(modelResult) ==
    IF modelResult.threw THEN Thrown("RUBRIC_STRUCTURE_FAILED")
    ELSE LET parsedRubric == RubricSchemaSafeParse(modelResult.value)
         IN  IF ~parsedRubric.success THEN Thrown("RUBRIC_STRUCTURE_FAILED")
             ELSE Returned(parsedRubric.data)

(***************************************************************************)
(* normalizeModelEvaluation                                                *)
(***************************************************************************)
SentenceEnds == {".", "!", "?"}

MaxSummaryLength     == 280
MaxFeedbackLength    == 140
MaxImprovementLength == 120

\* s.slice(0, n)
Slice(s, n) == SubSeq(s, 1, Min(Len(s), n))

IsNonEmptyText(s) == s # <<>>

\* The first position at or after i of a whitespace that follows . ! or ?, or 0.
RECURSIVE FirstSplitPoint(_, _)
FirstSplitPoint(s, i) ==
    IF i > Len(s) THEN 0
    ELSE IF s[i] \in Whitespace /\ s[i - 1] \in SentenceEnds THEN i
    ELSE FirstSplitPoint(s, i + 1)

\* s.split(/(?<=[.!?])\s+/)
RECURSIVE SplitSentences(_)
SplitSentences(s) ==
    LET at == FirstSplitPoint(s, 2)
    IN  IF at = 0 THEN <<s>>
        ELSE <<SubSeq(s, 1, at - 1)>> \o SplitSentences(TrimStart(SubSeq(s, at, Len(s))))

\* parts.join(" ")
RECURSIVE JoinSpace(_)
JoinSpace(parts) ==
    IF parts = <<>> THEN <<>>
    ELSE IF Len(parts) = 1 THEN parts[1]
    ELSE parts[1] \o <<" ">> \o JoinSpace(Tail(parts))

\* normalizeSummary, lines 4-17
normalizeSummary(summary) ==
    IF summary.type # "string" THEN summary
    ELSE LET sentences == SelectSeq(SplitSentences(Trim(CollapseWhitespace(summary.str))),
                                    IsNonEmptyText)
             limited   == Trim(JoinSpace(Slice(sentences, 2)))
         IN  JString(Slice(limited, MaxSummaryLength))

\* normalizeTopImprovements, lines 19-31
normalizeTopImprovements(value) ==
    IF value.type # "array" THEN value
    ELSE LET IsString(item)  == item.type = "string"
             IsNonEmpty(item) == item.str # <<>>
             strings == SelectSeq(value.items, IsString)
             mapped  == [i \in 1..Len(strings) |->
                            JString(Slice(Trim(CollapseWhitespace(strings[i].str)),
                                          MaxImprovementLength))]
         IN  JArray(Slice(SelectSeq(mapped, IsNonEmpty), 3))

\* The decimal value of a string of digits (the digit of the model is 1).
RECURSIVE Decimal(_)
Decimal(s) == IF s = <<>> THEN 0 ELSE 10 * Decimal(SubSeq(s, 1, Len(s) - 1)) + 1

\* normalizeCriteriaScores, lines 33-60.
\*   ToNumber(v) is Number(v) in units of 1/ScoreUnit, NaN being
\*   [finite |-> FALSE]: null and false are 0, true is 1, a blank string is 0,
\*   a string of digits its value, undefined and any other string NaN.  (Arrays
\*   and objects do not stand as range endpoints in the model; they are taken
\*   as NaN.  An item of criteria_scores that is an array does not stand in the
\*   model either.)
\*   Every line break is whitespace, so the two replacements of lines 55 come
\*   to one collapse of the whitespace runs.
normalizeCriteriaScores(value) ==
    LET ToNumber(v) ==
            CASE v.type = "number"  -> [finite |-> TRUE, value |-> v.num]
              [] v.type = "null"    -> [finite |-> TRUE, value |-> 0]
              [] v.type = "boolean" ->
                    [finite |-> TRUE, value |-> IF v.bool THEN ScoreUnit ELSE 0]
              [] v.type = "string"  ->
                    IF Trim(v.str) = <<>> THEN [finite |-> TRUE, value |-> 0]
                    ELSE IF \A i \in 1..Len(Trim(v.str)) : Trim(v.str)[i] \in Digits
                    THEN [finite |-> TRUE, value |-> Decimal(Trim(v.str)) * ScoreUnit]
                    ELSE [finite |-> FALSE, value |-> 0]
              [] OTHER              -> [finite |-> FALSE, value |-> 0]
        \* Number.isFinite(Number(raw)) ? Math.round(Number(raw)) : raw
        NormalizeEndpoint(raw) ==
            IF ToNumber(raw).finite
            THEN JNumber(Round(ToNumber(raw).value, ScoreUnit) * ScoreUnit)
            ELSE raw
        NormalizeFeedback(feedback) ==
            IF feedback.type # "string" THEN feedback
            ELSE JString(Slice(Trim(CollapseWhitespace(feedback.str)), MaxFeedbackLength))
        NormalizeRow(item) ==
            IF item.type # "object" THEN item
            ELSE LET range     == Field(item, "estimated_range")
                     estimated == IF range.type = "array" THEN range.items ELSE <<>>
                     lowRaw    == IF Len(estimated) >= 1 THEN estimated[1] ELSE JUndefined
                     highRaw   == IF Len(estimated) >= 2 THEN estimated[2] ELSE JUndefined
                 IN  JObject([k \in DOMAIN item.fields \cup {"feedback", "estimated_range"} |->
                        CASE k = "feedback" -> NormalizeFeedback(Field(item, "feedback"))
                          [] k = "estimated_range" ->
                                JArray(<<NormalizeEndpoint(lowRaw),
                                         NormalizeEndpoint(highRaw)>>)
                          [] OTHER -> item.fields[k]])
    IN  IF value.type # "array" THEN value
        ELSE JArray([i \in 1..Len(value.items) |-> NormalizeRow(value.items[i])])

\* normalizeModelEvaluation, lines 62-75; modelResult is an object
\* (parseModelJson returns nothing else).
normalizeModelEvaluation(modelResult) ==
    JObject([k \in DOMAIN modelResult.fields
                      \cup {"summary", "top_improvements", "criteria_scores"} |->
               CASE k = "summary" -> normalizeSummary(Field(modelResult, "summary"))
                 [] k = "top_improvements" ->
                        normalizeTopImprovements(Field(modelResult, "top_improvements"))
                 [] k = "criteria_scores" ->
                        normalizeCriteriaScores(Field(modelResult, "criteria_scores"))
                 [] OTHER -> modelResult.fields[k]])

(***************************************************************************)
(* EvaluationSchema and evaluateAssignment                                 *)
(***************************************************************************)
\* oneToTwoSentences counts the parts between runs of . ! ? that hold a
\* character other than whitespace; inPart: the part at hand is counted.
RECURSIVE SentenceCount(_, _)
SentenceCount(s, inPart) ==
    IF s = <<>> THEN 0
    ELSE IF Head(s) \in SentenceEnds THEN SentenceCount(Tail(s), FALSE)
    ELSE IF Head(s) \in Whitespace THEN SentenceCount(Tail(s), inPart)
    ELSE (IF inPart THEN 0 ELSE 1) + SentenceCount(Tail(s), TRUE)

oneToTwoSentences(value) == SentenceCount(value, FALSE) \in 1..2

\* Mutant: the tuple is not refined by low <= high.
IsIntegerRangeTuple_NoOrder(v) ==
    /\ v.type = "array"
    /\ Len(v.items) = 2
    /\ \A i \in 1..2 : v.items[i].type = "number" /\ v.items[i].num % ScoreUnit = 0

\* integerRangeTuple: z.tuple([z.number().int(), z.number().int()]) with low <= high
IsIntegerRangeTuple(v) ==
    /\ v.type = "array"
    /\ Len(v.items) = 2
    /\ \A i \in 1..2 : v.items[i].type = "number" /\ v.items[i].num % ScoreUnit = 0
    /\ v.items[1].num <= v.items[2].num

\* EvaluationSchema.safeParse(v)
EvaluationSchemaSafeParse(v) ==
    LET summary == Field(v, "summary")
        scores  == Field(v, "criteria_scores")
        top     == Field(v, "top_improvements")
        IsCriterionScore(row) ==
            /\ row.type = "object"
            /\ Field(row, "name").type = "string"
            /\ IsIntegerRangeTuple(Field(row, "estimated_range"))
            /\ Field(row, "feedback").type = "string"
            /\ Len(Field(row, "feedback").str) <= MaxFeedbackLength
            /\ \A i \in 1..Len(Field(row, "feedback").str) :
                  Field(row, "feedback").str[i] # "\n"
    IN  IF /\ summary.type = "string"
           /\ Len(summary.str) <= MaxSummaryLength
           /\ oneToTwoSentences(summary.str)
           /\ scores.type = "array"
           /\ \A i \in 1..Len(scores.items) : IsCriterionScore(scores.items[i])
           /\ top.type = "array"
           /\ Len(top.items) = 3
           /\ \A i \in 1..3 : /\ top.items[i].type = "string"
                              /\ Len(top.items[i].str) <= MaxImprovementLength
        THEN [success |-> TRUE,
              data |-> [summary |-> summary.str,
                        criteria_scores |-> [i \in 1..Len(scores.items) |->
                            LET range == Field(scores.items[i], "estimated_range").items
                            IN  [name            |-> Field(scores.items[i], "name").str,
                                 estimated_range |-> <<range[1].num \div ScoreUnit,
                                                       range[2].num \div ScoreUnit>>,
                                 feedback        |-> Field(scores.items[i], "feedback").str]],
                        top_improvements |-> [i \in 1..3 |-> top.items[i].str]]]
        ELSE SafeParseFailed

\* evaluateAssignment, lines 117-134; modelResult is the outcome of
\* callEvaluationModel.  Every error leaves as EVALUATION_FAILED.
evaluateAssignment(modelResult) ==
    IF modelResult.threw THEN Thrown("EVALUATION_FAILED")
    ELSE LET parsedEvaluation ==
                 EvaluationSchemaSafeParse(normalizeModelEvaluation(modelResult.value))
         IN  IF ~parsedEvaluation.success THEN Thrown("EVALUATION_FAILED")
             ELSE Returned(parsedEvaluation.data)

(***************************************************************************)
(* POST                                                                    *)
(*                                                                         *)
(* formData: rubric and assignment are "none" (no File entry) or the kind  *)
(* of the uploaded file: "tooLarge" (over MAX_FILE_SIZE_BYTES),            *)
(* "unsupported", "noText", "invalid" (parseFile throws                    *)
(* UNSUPPORTED_FILE_TYPE, TEXT_EXTRACTION_FAILED, a                        *)
(* FileParseValidationError) or "readable"; rubricText and assignmentText  *)
(* are "none" (no string entry), "blank" (whitespace only) or "text".      *)
(***************************************************************************)
ErrorResponse(status, error) == [status |-> status, body |-> [error |-> error]]
FieldErrorResponse(error, field) ==
    [status |-> 400, body |-> [error |-> error, field |-> field]]

\* getTextInput, lines 25-40: null ("none") unless the entry is a non-blank string.
getTextInput(value) == IF value = "text" THEN "text" ELSE "none"

\* resolveFieldText, lines 53-79, with the catch of lines 266-286: NoResponse
\* when the text of the field is resolved, else the response of the catch.
resolveFieldText(field, textValue, file) ==
    IF textValue # "none" THEN NoResponse
    ELSE CASE file = "none"        -> ErrorResponse(400, "MISSING_INPUT")
           [] file = "unsupported" -> FieldErrorResponse("UNSUPPORTED_FILE_TYPE", field)
           [] file = "noText"      -> FieldErrorResponse("TEXT_EXTRACTION_FAILED", field)
           [] file = "invalid"     -> ErrorResponse(400, "Invalid or unreadable file")
           [] OTHER                -> NoResponse

\* Lines 214-248: the response returned before any model call, or NoResponse
\* when both texts are resolved.
BoundaryResponse(form) ==
    LET rubricTextInput     == getTextInput(form.rubricText)
        assignmentTextInput == getTextInput(form.assignmentText)
        rubricResolved      == resolveFieldText("rubric", rubricTextInput, form.rubric)
    IN  IF form.rubric = "tooLarge" THEN FieldErrorResponse("FILE_TOO_LARGE", "rubric")
        ELSE IF form.assignment = "tooLarge"
        THEN FieldErrorResponse("FILE_TOO_LARGE", "assignment")
        ELSE IF rubricTextInput = "none" /\ form.rubric = "none"
        THEN ErrorResponse(400, "MISSING_INPUT")
        ELSE IF assignmentTextInput = "none" /\ form.assignment = "none"
        THEN ErrorResponse(400, "MISSING_INPUT")
        ELSE IF rubricResolved.status # 0 THEN rubricResolved
        ELSE resolveFieldText("assignment", assignmentTextInput, form.assignment)

\* callJsonModel sends a request to the service only when the model is set (line 61).
Invoke(modelEnvKey, env, sent) ==
    IF env[modelEnvKey] THEN Append(sent, modelEnvKey) ELSE sent

ReportFields == {"title", "overall_range", "summary", "top_improvements", "criteria"}

\* NextResponse.json(finalEvaluation)
ReportResponse(report) ==
    [status |-> 200, body |-> [k \in ReportFields |-> report[k]]]

\* Mutant: the error body carries the criteria reconciled so far.
RespondToEvaluation_PartialBody(rubric, evaluated) ==
    LET Respond(built) ==
            [criteria |-> built.criteria, report |-> built.report,
             response |-> IF built.report.status = "ok" THEN ReportResponse(built.report)
                          ELSE [status |-> 500,
                                body |-> [error    |-> "EVALUATION_FAILED",
                                          criteria |-> built.criteria.items]]]
    IN  IF evaluated.threw
        THEN [criteria |-> NoCriteria, report |-> NoReport,
              response |-> ErrorResponse(500, "EVALUATION_FAILED")]
        ELSE Respond(buildFinalEvaluation(rubric, evaluated.value))

\* Mutant: buildFinalEvaluation runs after the try block, so that what it
\* throws reaches the catch of lines 266-286.
RespondToEvaluation_BuildOutsideTry(rubric, evaluated) ==
    LET Respond(built) ==
            [criteria |-> built.criteria, report |-> built.report,
             response |-> IF built.report.status = "ok" THEN ReportResponse(built.report)
                          ELSE ErrorResponse(500, "Failed to process uploaded files")]
    IN  IF evaluated.threw
        THEN [criteria |-> NoCriteria, report |-> NoReport,
              response |-> ErrorResponse(500, "EVALUATION_FAILED")]
        ELSE Respond(buildFinalEvaluation(rubric, evaluated.value))

\* Lines 258-265, from the outcome of evaluateAssignment on.
RespondToEvaluation(rubric, evaluated) ==
    LET Respond(built) ==
            [criteria |-> built.criteria, report |-> built.report,
             response |-> IF built.report.status = "ok" THEN ReportResponse(built.report)
                          ELSE ErrorResponse(500, "EVALUATION_FAILED")]
    IN  IF evaluated.threw
        THEN [criteria |-> NoCriteria, report |-> NoReport,
              response |-> ErrorResponse(500, "EVALUATION_FAILED")]
        ELSE Respond(buildFinalEvaluation(rubric, evaluated.value))

(***************************************************************************)
(* Specification SpecPost: one request through POST.  The handler runs     *)
(* from the form data to its first model call, resumes when the            *)
(* structuring call settles, and resumes again when the evaluation call    *)
(* settles.  The requests and the answers of the model service are those   *)
(* of six input families; but for the first, the texts are pasted, and     *)
(* but for the third, the rubric is GoodRubric.                            *)
(*   boundary: every form data (6 kinds of file, 3 kinds of text), both    *)
(*             models answering well;                                      *)
(*   service:  each model set or not, each answer an error of the          *)
(*             service, an unparseable text or an object;                  *)
(*   rubrics:  the structuring answer is every object of 0..MaxCriteria    *)
(*             sample criteria, and three objects whose top level is off;  *)
(*   ranges:   the estimated_range of the first score is every array of    *)
(*             0..MaxRangeLength sample endpoints, a string, null or       *)
(*             nothing;                                                    *)
(*   names:    0..MaxCriteria scores of sample names, with every           *)
(*             top_improvements of TopSamples;                             *)
(*   texts:    every sample summary and feedback, with every               *)
(*             top_improvements of TopSamples.                             *)
(***************************************************************************)
ServiceError   == [kind |-> "serviceError"]
Unparseable    == [kind |-> "unparseable"]
Object(value)  == [kind |-> "object", value |-> value]

CriterionValue(name, max) ==
    JObject([name |-> JString(name), max_score |-> JNumber(max),
             description |-> JString(<<"d">>)])
RubricValue(list) == JObject([criteria |-> JArray(list)])

ScoreValue(name, range, feedback) ==
    JObject([name |-> JString(name), estimated_range |-> range, feedback |-> feedback])
EvaluationValue(summary, scores, top) ==
    JObject([summary |-> summary, criteria_scores |-> JArray(scores),
             top_improvements |-> JArray(top)])

IntRange(low, high) == JArray(<<JNumber(low * ScoreUnit), JNumber(high * ScoreUnit)>>)

\* A rubric of the criteria a and b, 10 points each, and an evaluation of them.
GoodRubric == RubricValue(<<CriterionValue(<<"a">>, 10 * ScoreUnit),
                            CriterionValue(<<"b">>, 10 * ScoreUnit)>>)
GoodSummary == JString(<<"a", ".">>)
GoodTop     == <<JString(<<"a">>), JString(<<"b">>), JString(<<"c">>)>>
GoodScores  == <<ScoreValue(<<"a">>, IntRange(6, 8), JString(<<"a">>)),
                 ScoreValue(<<"b">>, IntRange(2, 9), JString(<<"b">>))>>
GoodEvaluation == EvaluationValue(GoodSummary, GoodScores, GoodTop)

TextForm == [rubric |-> "none", assignment |-> "none",
             rubricText |-> "text", assignmentText |-> "text"]
BothSet  == [STRUCTURE_MODEL |-> TRUE, EVALUATION_MODEL |-> TRUE]

InitPostBoundary ==
    /\ LET FileKinds == {"none", "tooLarge", "unsupported", "noText", "invalid", "readable"}
           TextKinds == {"none", "blank", "text"}
       IN  formData \in [rubric : FileKinds, assignment : FileKinds,
                         rubricText : TextKinds, assignmentText : TextKinds]
    /\ modelEnv = BothSet
    /\ modelOutput = [STRUCTURE_MODEL |-> Object(GoodRubric),
                      EVALUATION_MODEL |-> Object(GoodEvaluation)]

InitPostService ==
    /\ formData = TextForm
    /\ modelEnv \in [STRUCTURE_MODEL : BOOLEAN, EVALUATION_MODEL : BOOLEAN]
    /\ modelOutput \in [STRUCTURE_MODEL : {ServiceError, Unparseable, Object(GoodRubric)},
                        EVALUATION_MODEL : {ServiceError, Unparseable, Object(GoodEvaluation)}]

InitPostRubrics ==
    LET CriterionSamples ==
            { CriterionValue(<<"a">>, 10 * ScoreUnit),
              CriterionValue(<<"b">>, 10 * ScoreUnit),
              CriterionValue(<<"A", " ">>, 10 * ScoreUnit),     \* the key of a
              CriterionValue(<<"-">>, 10 * ScoreUnit),          \* all punctuation
              CriterionValue(<<>>, 10 * ScoreUnit),             \* the empty name
              CriterionValue(<<"c">>, 1),                       \* max_score 1/ScoreUnit
              CriterionValue(<<"c">>, 0),
              CriterionValue(<<"c">>, 0 - ScoreUnit),
              JObject([name |-> JString(<<"c">>), max_score |-> JString(<<"1">>),
                       description |-> JString(<<"d">>)]),
              JObject([name |-> JNumber(ScoreUnit), max_score |-> JNumber(ScoreUnit),
                       description |-> JString(<<"d">>)]),
              JObject([name |-> JString(<<"c">>), max_score |-> JNumber(ScoreUnit)]),
              JObject([name |-> JString(<<"c">>), max_score |-> JNumber(ScoreUnit),
                       description |-> JString(<<"d">>), weight |-> JNumber(ScoreUnit)]),
              JNull }
        RubricValues ==
            { RubricValue(list) : list \in SeqsOf(CriterionSamples, 0, MaxCriteria) }
                \cup { JObject([criteria |-> JString(<<"a">>)]),
                       JObject([rubric |-> GoodRubric.fields.criteria]),
                       JObject([criteria |-> GoodRubric.fields.criteria,
                                title |-> JString(<<"a">>)]) }
    IN
    /\ formData = TextForm
    /\ modelEnv = BothSet
    /\ \E rubric \in RubricValues :
           modelOutput = [STRUCTURE_MODEL |-> Object(rubric),
                          EVALUATION_MODEL |-> Object(GoodEvaluation)]

MaxRangeLength == 3

InitPostRanges ==
    LET EndpointSamples ==
            { JNumber(6 * ScoreUnit), JNumber(8 * ScoreUnit),
              JNumber(7 * ScoreUnit + 1),       \* no integer
              JNull, JBoolean(TRUE),
              JString(<<"1">>), JString(<<"a">>), JString(<<>>) }
        RangeSamples ==
            { JArray(ends) : ends \in SeqsOf(EndpointSamples, 0, MaxRangeLength) }
                \cup { JString(<<"1">>), JNull, JUndefined }
    IN
    /\ formData = TextForm
    /\ modelEnv = BothSet
    /\ \E range \in RangeSamples :
           modelOutput =
               [STRUCTURE_MODEL |-> Object(GoodRubric),
                EVALUATION_MODEL |-> Object(EvaluationValue(GoodSummary,
                    <<ScoreValue(<<"a">>, range, JString(<<"a">>)), GoodScores[2]>>,
                    GoodTop))]

TopSamples ==
    { GoodTop,
      SubSeq(GoodTop, 1, 2),
      GoodTop \o <<JString(<<"a">>)>>,
      <<GoodTop[1], JNumber(ScoreUnit), GoodTop[2], GoodTop[3]>>,   \* an item is no string
      <<GoodTop[1], JString(<<" ">>), GoodTop[3]>>,                 \* an item is blank
      <<GoodTop[1], JNull, GoodTop[3]>> }

InitPostNames ==
    LET ScoreNameSamples == { <<"a">>, <<"b">>, <<"A", " ">>, <<"c">>, <<"-">> }
    IN
    /\ formData = TextForm
    /\ modelEnv = BothSet
    /\ \E names \in SeqsOf(ScoreNameSamples, 0, MaxCriteria) : \E top \in TopSamples :
           modelOutput =
               [STRUCTURE_MODEL |-> Object(GoodRubric),
                EVALUATION_MODEL |-> Object(EvaluationValue(GoodSummary,
                    [i \in 1..Len(names) |->
                        ScoreValue(names[i], IntRange(i, i + 5), JString(<<"a">>))],
                    top))]

InitPostTexts ==
    LET SummarySamples ==
            { GoodSummary,
              JString(<<" ", "a", "\n", "b", "!", " ", " ", "c", ".", " ", "a", "?">>),
              JString(<<"a", ".", "b", ".", "c">>),
              JString(<<" ">>),
              JNumber(ScoreUnit),
              JUndefined }
        FeedbackSamples ==
            { JString(<<"a">>),
              JString(<<" ", "a", "\n", "\n", "b", " ">>),
              JString(<<>>),
              JNull,
              JUndefined }
    IN
    /\ formData = TextForm
    /\ modelEnv = BothSet
    /\ \E summary \in SummarySamples : \E feedback \in FeedbackSamples :
       \E top \in TopSamples \cup {<<>>} :
           modelOutput =
               [STRUCTURE_MODEL |-> Object(GoodRubric),
                EVALUATION_MODEL |-> Object(EvaluationValue(summary,
                    <<ScoreValue(<<"a">>, IntRange(6, 8), feedback), GoodScores[2]>>,
                    top))]

InitPost ==
    /\ pc = "post"
    /\ ClampIdle
    /\ BuildIdle
    /\ JsonIdle
    /\ TextIdle
    /\ PageIdle
    /\ \/ InitPostBoundary
       \/ InitPostService
       \/ InitPostRubrics
       \/ InitPostRanges
       \/ InitPostNames
       \/ InitPostTexts
    /\ calls = <<>>
    /\ response = NoResponse

\* Mutant: the two model calls are started together (as with Promise.all).
ReceiveRequest_BothCalls ==
    /\ pc = "post"
    /\ LET early == BoundaryResponse(formData)
       IN  IF early.status # 0
           THEN /\ response' = early
                /\ pc' = "responded"
                /\ UNCHANGED calls
           ELSE /\ calls' = Invoke("EVALUATION_MODEL", modelEnv,
                                   Invoke("STRUCTURE_MODEL", modelEnv, calls))
                /\ pc' = "structuring"
                /\ UNCHANGED response
    /\ UNCHANGED <<formData, modelEnv, modelOutput>>
    /\ UNCHANGED <<clampVars, buildVars, jsonVars, textVars, pageVars>>

\* Lines 213-252: from the form data to the call of structureRubric.
ReceiveRequest ==
    /\ pc = "post"
    /\ LET early == BoundaryResponse(formData)
       IN  IF early.status # 0
           THEN /\ response' = early
                /\ pc' = "responded"
                /\ UNCHANGED calls
           ELSE /\ calls' = Invoke("STRUCTURE_MODEL", modelEnv, calls)
                /\ pc' = "structuring"
                /\ UNCHANGED response
    /\ UNCHANGED <<formData, modelEnv, modelOutput>>
    /\ UNCHANGED <<clampVars, buildVars, jsonVars, textVars, pageVars>>

\* Lines 252-259: the structuring call settles; the rubric is validated and
\* evaluateAssignment is called, or the request ends.
StructureSettles ==
    /\ pc = "structuring"
    /\ \E structured \in {structureRubric(
                              callJsonModel("STRUCTURE_MODEL", modelEnv,
                                            modelOutput.STRUCTURE_MODEL))} :
           IF structured.threw
           THEN /\ response' = ErrorResponse(400, "RUBRIC_STRUCTURE_FAILED")
                /\ pc' = "responded"
                /\ UNCHANGED <<structuredRubric, calls>>
           ELSE /\ structuredRubric' = structured.value
                /\ calls' = Invoke("EVALUATION_MODEL", modelEnv, calls)
                /\ pc' = "evaluating"
                /\ UNCHANGED response
    /\ UNCHANGED <<formData, modelEnv, modelOutput>>
    /\ UNCHANGED <<evaluation, criteria, finalEvaluation>>
    /\ UNCHANGED <<clampVars, jsonVars, textVars, pageVars>>

\* Lines 259-265: the evaluation call settles; the evaluation is normalized
\* and validated, the report is built and the response returned.
EvaluationSettles ==
    /\ pc = "evaluating"
    /\ \E evaluated \in {evaluateAssignment(
                             callJsonModel("EVALUATION_MODEL", modelEnv,
                                           modelOutput.EVALUATION_MODEL))} :
       \E result \in {RespondToEvaluation(structuredRubric, evaluated)} :
           /\ evaluation' = IF evaluated.threw THEN evaluation ELSE evaluated.value
           /\ criteria' = result.criteria
           /\ finalEvaluation' = result.report
           /\ response' = result.response
    /\ pc' = "responded"
    /\ UNCHANGED <<formData, modelEnv, modelOutput, calls, structuredRubric>>
    /\ UNCHANGED <<clampVars, jsonVars, textVars, pageVars>>

NextPost == ReceiveRequest \/ StructureSettles \/ EvaluationSettles

SpecPost == InitPost /\ [][NextPost]_vars

(***************************************************************************)
(* Specification SpecText: normalizeText applied to every text of up to    *)
(* MaxNormLen characters, and then to its own result.                      *)
(***************************************************************************)
MaxNormLen == 5

TextChars == {"a", " ", "\t", "\r", "\n"}

InitText ==
    /\ pc = "normalizeText"
    /\ textVersion \in {1, 2}
    /\ inputText \in SeqsOf(TextChars, 0, MaxNormLen)
    /\ normalizedText = NoText
    /\ renormalizedText = NoText
    /\ ClampIdle
    /\ BuildIdle
    /\ JsonIdle
    /\ PostIdle
    /\ PageIdle

NormalizeText ==
    /\ pc = "normalizeText"
    /\ normalizedText' = NormalizeTextOf(textVersion, inputText)
    /\ pc' = "renormalizeText"
    /\ UNCHANGED <<textVersion, inputText, renormalizedText>>
    /\ UNCHANGED <<clampVars, buildVars, jsonVars, postVars, pageVars>>

RenormalizeText ==
    /\ pc = "renormalizeText"
    /\ renormalizedText' = NormalizeTextOf(textVersion, normalizedText)
    /\ pc' = "textDone"
    /\ UNCHANGED <<textVersion, inputText, normalizedText>>
    /\ UNCHANGED <<clampVars, buildVars, jsonVars, postVars, pageVars>>

NextText == NormalizeText \/ RenormalizeText

SpecText == InitText /\ [][NextText]_vars

(***************************************************************************)
(* The form page (app/page.tsx)                                            *)
(*                                                                         *)
(* A file is "null", "valid", or a file that validateFile refuses          *)
(* ("unsupported", "tooLarge").  A call of handleSubmit runs to its first  *)
(* await in one step, and from one await to the next or to its return in   *)
(* one step; state updates made in one step are applied together, the last *)
(* one winning.  The three timers of stepTimers were set at one time with  *)
(* growing delays: they fire in the order in which they stand.             *)
(***************************************************************************)
Messages ==
    [missing  |-> "Please provide both a rubric and an assignment.",
     tooLarge |-> "File is too large. Max size is 5MB.",
     wrong    |-> "Something went wrong. Please try again."]

\* validateFile, lines 80-92: the message, or "" for null.
validateFile(file) ==
    CASE file = "unsupported" -> "Unsupported file type. Please upload PDF, DOCX, or TXT."
      [] file = "tooLarge"    -> Messages.tooLarge
      [] OTHER                -> ""

\* mapApiError, lines 242-263
mapApiError(data) ==
    CASE data = "MISSING_INPUT"          -> Messages.missing
      [] data = "TEXT_EXTRACTION_FAILED" -> "Text extraction failed."
      [] data = "UNSUPPORTED_FILE_TYPE"  -> validateFile("unsupported")
      [] data = "FILE_TOO_LARGE"         -> Messages.tooLarge
      [] OTHER                           -> Messages.wrong

\* Mutant: switching to file mode leaves the pasted text in place.
SwitchMode_KeepText ==
    /\ pc = "page"
    /\ \E field \in Fields : \E nextMode \in {"file", "text"} :
          /\ inputMode' = [inputMode EXCEPT ![field] = nextMode]
          /\ pageError' = ""
          /\ IF nextMode = "text"
             THEN /\ inputFile' = [inputFile EXCEPT ![field] = "null"]
                  /\ UNCHANGED fieldText
             ELSE UNCHANGED <<fieldText, inputFile>>
    /\ UNCHANGED <<pc, loadingStep, gradeResult, submissions>>
    /\ UNCHANGED <<clampVars, buildVars, jsonVars, postVars, textVars>>

\* switchRubricMode and switchAssignmentMode, lines 171-193 (the tab buttons,
\* lines 443-448 and 549-559).
SwitchMode ==
    /\ pc = "page"
    /\ \E field \in Fields : \E nextMode \in {"file", "text"} :
          /\ inputMode' = [inputMode EXCEPT ![field] = nextMode]
          /\ pageError' = ""
          /\ IF nextMode = "text"
             THEN /\ inputFile' = [inputFile EXCEPT ![field] = "null"]
                  /\ UNCHANGED fieldText
             ELSE /\ fieldText' = [fieldText EXCEPT ![field] = <<>>]
                  /\ UNCHANGED inputFile
    /\ UNCHANGED <<pc, loadingStep, gradeResult, submissions>>
    /\ UNCHANGED <<clampVars, buildVars, jsonVars, postVars, textVars>>

\* applyFileSelection, lines 195-209
applyFileSelection(field, file) ==
    IF validateFile(file) # ""
    THEN /\ pageError' = validateFile(file)
         /\ inputFile' = [inputFile EXCEPT ![field] = "null"]
    ELSE /\ pageError' = ""
         /\ inputFile' = [inputFile EXCEPT ![field] = file]

\* handleFileInputChange, lines 211-218; the input stands in file mode only
\* (lines 455-463).
HandleFileInputChange ==
    /\ pc = "page"
    /\ \E field \in Fields : \E selectedFile \in {"null", "valid", "unsupported", "tooLarge"} :
          /\ inputMode[field] = "file"
          /\ IF selectedFile = "null" THEN UNCHANGED <<pageError, inputFile>>
             ELSE applyFileSelection(field, selectedFile)
    /\ UNCHANGED <<pc, inputMode, fieldText, loadingStep, gradeResult, submissions>>
    /\ UNCHANGED <<clampVars, buildVars, jsonVars, postVars, textVars>>

\* handleDrop, lines 220-240; the drop zone stands in file mode only (lines
\* 455-480).  files is the list of the files dropped.
HandleDrop ==
    /\ pc = "page"
    /\ \E field \in Fields : \E files \in SeqsOf({"valid", "unsupported", "tooLarge"}, 0, 2) :
          /\ inputMode[field] = "file"
          /\ IF Len(files) = 0 THEN UNCHANGED <<pageError, inputFile>>
             ELSE IF Len(files) > 1
             THEN pageError' = "Please drop only one file." /\ UNCHANGED inputFile
             ELSE applyFileSelection(field, files[1])
    /\ UNCHANGED <<pc, inputMode, fieldText, loadingStep, gradeResult, submissions>>
    /\ UNCHANGED <<clampVars, buildVars, jsonVars, postVars, textVars>>

\* clearFile from the Remove button, lines 158-169 and 499-510: the button
\* stands in file mode while a file is held.
ClearFile ==
    /\ pc = "page"
    /\ \E field \in Fields :
          /\ inputMode[field] = "file"
          /\ inputFile[field] # "null"
          /\ inputFile' = [inputFile EXCEPT ![field] = "null"]
    /\ UNCHANGED <<pc, inputMode, fieldText, loadingStep, gradeResult, pageError, submissions>>
    /\ UNCHANGED <<clampVars, buildVars, jsonVars, postVars, textVars>>

\* The textarea, lines 513-519 and 625-631: it stands in text mode only.
SetText ==
    /\ pc = "page"
    /\ \E field \in Fields : \E value \in {<<>>, <<" ">>, <<"a">>, <<" ", "a">>} :
          /\ inputMode[field] = "text"
          /\ fieldText' = [fieldText EXCEPT ![field] = value]
    /\ UNCHANGED <<pc, inputMode, inputFile, loadingStep, gradeResult, pageError, submissions>>
    /\ UNCHANGED <<clampVars, buildVars, jsonVars, postVars, textVars>>

\* The form data of lines 332-352: the names of its entries.
FormEntries ==
    { IF inputMode[f] = "file" THEN f ELSE IF f = "rubric" THEN "rubricText"
                                      ELSE "assignmentText" : f \in Fields }

\* handleSubmit, lines 303-365: from the submit event to the first await.
\* The submit button is disabled while loadingStep is not idle (line 651).
HandleSubmit ==
    /\ pc = "page"
    /\ loadingStep = "idle"
    /\ gradeResult' = "null"
    /\ \E s \in 1..MaxSubmissions :
          /\ submissions[s].pc = "none"
          /\ \A t \in 1..(s - 1) : submissions[t].pc # "none"
          /\ LET Provided(f) == IF inputMode[f] = "file" THEN inputFile[f] # "null"
                                ELSE Trim(fieldText[f]) # <<>>
                 TooLarge(f) == inputMode[f] = "file" /\ inputFile[f] = "tooLarge"
             IN  IF \E f \in Fields : ~Provided(f)
                 THEN pageError' = Messages.missing /\ UNCHANGED <<loadingStep, submissions>>
                 ELSE IF \E f \in Fields : TooLarge(f)
                 THEN pageError' = Messages.tooLarge /\ UNCHANGED <<loadingStep, submissions>>
                 ELSE /\ pageError' = ""
                      /\ loadingStep' = "uploading"
                      /\ submissions' = [submissions EXCEPT ![s] =
                             [pc |-> "awaitResponse",
                              stepTimers |-> <<"parsing", "structuringRubric",
                                               "evaluatingAssignment">>,
                              ok |-> FALSE, formData |-> FormEntries]]
    /\ UNCHANGED <<pc, inputMode, inputFile, fieldText>>
    /\ UNCHANGED <<clampVars, buildVars, jsonVars, postVars, textVars>>

\* One of the timers of lines 359-363 fires.
StepTimerFires ==
    /\ pc = "page"
    /\ \E s \in 1..MaxSubmissions :
          /\ submissions[s].stepTimers # <<>>
          /\ loadingStep' = Head(submissions[s].stepTimers)
          /\ submissions' = [submissions EXCEPT ![s].stepTimers = Tail(@)]
    /\ UNCHANGED <<pc, inputMode, inputFile, fieldText, gradeResult, pageError>>
    /\ UNCHANGED <<clampVars, buildVars, jsonVars, postVars, textVars>>

\* Lines 389-394, the finally block: the timers are cleared, loadingStep is
\* idle, the call returns.
Finally(s) ==
    /\ loadingStep' = "idle"
    /\ submissions' = [submissions EXCEPT ![s] = NoSubmission]

\* Mutant: the timers are not cleared when the response has arrived.
ResponseArrives_KeepTimers ==
    /\ pc = "page"
    /\ \E s \in 1..MaxSubmissions : \E ok \in BOOLEAN : \E isJson \in BOOLEAN :
          /\ submissions[s].pc = "awaitResponse"
          /\ IF isJson
             THEN /\ loadingStep' = "evaluatingAssignment"
                  /\ submissions' = [submissions EXCEPT ![s] =
                         [@ EXCEPT !.pc = "awaitJson", !.ok = ok]]
                  /\ UNCHANGED pageError
             ELSE /\ pageError' = IF ok THEN Messages.wrong ELSE mapApiError("INTERNAL_SERVER_ERROR")
                  /\ Finally(s)
    /\ UNCHANGED <<pc, inputMode, inputFile, fieldText, gradeResult>>
    /\ UNCHANGED <<clampVars, buildVars, jsonVars, postVars, textVars>>

\* Lines 365-385 after the fetch resolved: the timers are cleared and the step
\* set; a response that is no JSON is handled at once, a JSON body is awaited.
ResponseArrives ==
    /\ pc = "page"
    /\ \E s \in 1..MaxSubmissions : \E ok \in BOOLEAN : \E isJson \in BOOLEAN :
          /\ submissions[s].pc = "awaitResponse"
          /\ IF isJson
             THEN /\ loadingStep' = "evaluatingAssignment"
                  /\ submissions' = [submissions EXCEPT ![s] =
                         [@ EXCEPT !.pc = "awaitJson", !.stepTimers = <<>>, !.ok = ok]]
                  /\ UNCHANGED pageError
             ELSE /\ pageError' = IF ok THEN Messages.wrong ELSE mapApiError("INTERNAL_SERVER_ERROR")
                  /\ Finally(s)
    /\ UNCHANGED <<pc, inputMode, inputFile, fieldText, gradeResult>>
    /\ UNCHANGED <<clampVars, buildVars, jsonVars, postVars, textVars>>

\* Lines 386-394: the fetch rejected.
FetchRejects ==
    /\ pc = "page"
    /\ \E s \in 1..MaxSubmissions :
          /\ submissions[s].pc = "awaitResponse"
          /\ pageError' = Messages.wrong
          /\ Finally(s)
    /\ UNCHANGED <<pc, inputMode, inputFile, fieldText, gradeResult>>
    /\ UNCHANGED <<clampVars, buildVars, jsonVars, postVars, textVars>>

\* Lines 369-394 after response.json() settled: data is "thrown" (no JSON
\* after all), the error of an error body, "malformed" or "gradeResult".
JsonSettles ==
    /\ pc = "page"
    /\ \E s \in 1..MaxSubmissions :
       \E data \in {"thrown", "MISSING_INPUT", "FILE_TOO_LARGE", "EVALUATION_FAILED",
                    "malformed", "gradeResult"} :
          /\ submissions[s].pc = "awaitJson"
          /\ IF data = "thrown" THEN pageError' = Messages.wrong /\ UNCHANGED gradeResult
             ELSE IF ~submissions[s].ok
             THEN pageError' = mapApiError(data) /\ UNCHANGED gradeResult
             ELSE IF data # "gradeResult"
             THEN pageError' = Messages.wrong /\ UNCHANGED gradeResult
             ELSE gradeResult' = "shown" /\ UNCHANGED pageError
          /\ Finally(s)
    /\ UNCHANGED <<pc, inputMode, inputFile, fieldText>>
    /\ UNCHANGED <<clampVars, buildVars, jsonVars, postVars, textVars>>

InitPage ==
    /\ pc = "page"
    /\ PageIdle
    /\ ClampIdle
    /\ BuildIdle
    /\ JsonIdle
    /\ PostIdle
    /\ TextIdle

NextPage ==
    \/ SwitchMode \/ HandleFileInputChange \/ HandleDrop \/ ClearFile \/ SetText
    \/ HandleSubmit \/ StepTimerFires \/ ResponseArrives \/ FetchRejects \/ JsonSettles

SpecPage == InitPage /\ [][NextPage]_vars

(***************************************************************************)
(* C1: for every max_score > 0 and every raw integer pair, the clamp       *)
(* output [l, h] satisfies 0 <= l <= h <= floor(max_score) and             *)
(* h - l <= max(2, round(max_score * 0.25)).                               *)
(***************************************************************************)
C1_ClampBounds ==
    (clamped # NoRange /\ maxScore > 0) =>
        /\ 0 <= clamped[1]
        /\ clamped[1] <= clamped[2]
        /\ clamped[2] <= Floor(maxScore, ScoreUnit)
        /\ clamped[2] - clamped[1] <= Max(2, Round(maxScore, 4 * ScoreUnit))

\* A raw range that exceeds the ceiling and is too wide was clamped and
\* recentred for a fractional max_score (12.5).
C1_Witness ==
    /\ pc = "reclamp"
    /\ maxScore = 25
    /\ estimatedRange = <<1, 14>>
    /\ clamped = <<5, 8>>

(***************************************************************************)
(* C2: clamping is idempotent: for max_score > 0, clamping a clamped       *)
(* range again returns it unchanged.                                       *)
(***************************************************************************)
C2_ClampIdempotent ==
    (pc = "clampDone" /\ maxScore > 0) => reclamped = clamped

\* The first clamp changed the raw range (recentring), the second changed nothing.
C2_Witness ==
    /\ pc = "clampDone"
    /\ maxScore > 0
    /\ estimatedRange = <<0, 14>>
    /\ clamped # estimatedRange
    /\ clamped[2] - clamped[1] = WidthLimit(maxScore)
    /\ reclamped = clamped

(***************************************************************************)
(* C3: every report buildFinalEvaluation returns has overall_range =       *)
(* [lo, hi] with lo, hi integers and 0 <= lo <= hi <= 100.                 *)
(***************************************************************************)
C3_OverallRangeInBounds ==
    finalEvaluation.status = "ok" =>
        /\ finalEvaluation.overall_range[1] \in 0..100
        /\ finalEvaluation.overall_range[2] \in 0..100
        /\ finalEvaluation.overall_range[1] <= finalEvaluation.overall_range[2]

\* The unclamped scaled ends of the overall range of a returned report.
RawScaledLow ==
    Round(SumOver(RangeLow, finalEvaluation.criteria) * 100 * ScoreUnit,
          SumOver(MaxScoreOf, structuredRubric.criteria))
RawScaledHigh ==
    Round(SumOver(RangeHigh, finalEvaluation.criteria) * 100 * ScoreUnit,
          SumOver(MaxScoreOf, structuredRubric.criteria))

\* A report whose scaled high end exceeded 100 before the clamp (a rubric
\* with a negative max_score beside a positive one).
C3_Witness ==
    /\ finalEvaluation.status = "ok"
    /\ RawScaledHigh > 100
    /\ finalEvaluation.overall_range[2] = 100

(***************************************************************************)
(* C4: every report buildFinalEvaluation returns has                       *)
(* overall_range[2] - overall_range[1] <= 25.                              *)
(***************************************************************************)
C4_OverallWidthCap ==
    finalEvaluation.status = "ok" =>
        finalEvaluation.overall_range[2] - finalEvaluation.overall_range[1] <= 25

\* A report whose scaled range was wider than 25 before the cap and is 25 wide.
C4_Witness ==
    /\ finalEvaluation.status = "ok"
    /\ RawScaledHigh <= 100
    /\ RawScaledHigh - RawScaledLow > 25
    /\ finalEvaluation.overall_range[2] - finalEvaluation.overall_range[1] = 25

(***************************************************************************)
(* C5: if the rubric has 2 or more criteria whose normalized keys are      *)
(* non-empty and pairwise distinct, and the normalized keys of             *)
(* criteria_scores are a permutation of them, reconciliation succeeds and  *)
(* yields one output criterion per rubric criterion, in rubric order.      *)
(***************************************************************************)
IsPermutation(keys1, keys2) ==
    /\ Len(keys1) = Len(keys2)
    /\ Distinct(keys1)
    /\ Distinct(keys2)
    /\ KeySet(keys1) = KeySet(keys2)

C5_PermutationReconciles ==
    (pc = "buildDone") =>
      ( LET rubricKeys == RubricKeys
            scoreKeys  == ScoreKeys
        IN  ( /\ Len(structuredRubric.criteria) >= 2
              /\ NonEmpty(rubricKeys)
              /\ IsPermutation(rubricKeys, scoreKeys) ) =>
                /\ criteria.status = "ok"
                /\ Len(criteria.items) = Len(structuredRubric.criteria)
                /\ \A i \in 1..Len(criteria.items) :
                      /\ criteria.items[i].name = structuredRubric.criteria[i].name
                      /\ criteria.items[i].max_score =
                             structuredRubric.criteria[i].max_score )

\* Three criteria scored in another order, under display names that differ
\* from the rubric's in case, spacing and compatibility form.
C5_Witness ==
    /\ pc = "buildDone"
    /\ Len(structuredRubric.criteria) = 3
    /\ NonEmpty(RubricKeys)
    /\ IsPermutation(RubricKeys, ScoreKeys)
    /\ RubricKeys # ScoreKeys
    /\ \E i \in 1..3 : structuredRubric.criteria[i].name = <<"a">>
    /\ \E i \in 1..3 : evaluation.criteria_scores[i].name = <<"A", " ">>
    /\ criteria.status = "ok"
    /\ Len(criteria.items) = 3

(***************************************************************************)
(* C6: reconciliation succeeds only if matching by normalized key is a     *)
(* bijection between rubric criteria and criteria_scores: a rubric         *)
(* criterion without a score of its key, or a score that matches no rubric *)
(* criterion, makes buildFinalEvaluation fail and no report is produced.   *)
(***************************************************************************)
C6_BijectionOrFailure ==
    (pc = "buildDone") =>
      ( LET rubricKeys == KeySet(RubricKeys)
            scoreKeys  == KeySet(ScoreKeys)
        IN  ( \/ \E k \in rubricKeys : k \notin scoreKeys
              \/ \E k \in scoreKeys : k \notin rubricKeys ) =>
                /\ criteria.status = "EVALUATION_FAILED"
                /\ finalEvaluation.status = "EVALUATION_FAILED" )

\* Every rubric criterion has its score, and one more score matches none.
C6_Witness ==
    /\ pc = "buildDone"
    /\ NonEmpty(RubricKeys) /\ Distinct(RubricKeys)
    /\ NonEmpty(ScoreKeys) /\ Distinct(ScoreKeys)
    /\ Len(RubricKeys) = 2
    /\ Len(ScoreKeys) = 3
    /\ KeySet(RubricKeys) \subseteq KeySet(ScoreKeys)
    /\ finalEvaluation.status = "EVALUATION_FAILED"

(***************************************************************************)
(* C7: if two rubric criteria, or two criteria_scores entries, have the    *)
(* same normalized key, the call fails, whatever the other list contains.  *)
(***************************************************************************)
C7_DuplicateKeyFails ==
    (pc = "buildDone") =>
      ( LET rubricKeys == RubricKeys
            scoreKeys  == ScoreKeys
        IN  (~Distinct(rubricKeys) \/ ~Distinct(scoreKeys)) =>
                /\ criteria.status = "EVALUATION_FAILED"
                /\ finalEvaluation.status = "EVALUATION_FAILED" )

\* Rubric criteria "a" and "A " share the key "a"; the scores are distinct
\* and one of them has that key.
C7_Witness ==
    /\ pc = "buildDone"
    /\ Len(structuredRubric.criteria) = 2
    /\ structuredRubric.criteria[1].name = <<"a">>
    /\ structuredRubric.criteria[2].name = <<"A", " ">>
    /\ Len(ScoreKeys) = 2
    /\ Distinct(ScoreKeys) /\ NonEmpty(ScoreKeys)
    /\ <<"a">> \in KeySet(ScoreKeys)
    /\ finalEvaluation.status = "EVALUATION_FAILED"

(***************************************************************************)
(* C8: the empty key is never a match key: if a rubric criterion name or a *)
(* criteria_scores name is empty or has no letter and no digit (so that it *)
(* normalizes to the empty string), buildFinalEvaluation fails, even when  *)
(* a rubric name and a score name are both such names.                     *)
(***************************************************************************)
\* No character of the name is a letter or a number in any form.
Unnameable(name) ==
    \A i \in 1..Len(name) :
        name[i] \notin LowerLetters \cup UpperLetters \cup Digits \cup {"U+FF21"}

C8_EmptyKeyFails ==
    (pc = "buildDone") =>
      ( ( \/ \E i \in 1..Len(structuredRubric.criteria) :
                LET name == structuredRubric.criteria[i].name
                IN  Unnameable(name) \/ normalizeCriterionName(name) = <<>>
          \/ \E j \in 1..Len(evaluation.criteria_scores) :
                LET name == evaluation.criteria_scores[j].name
                IN  Unnameable(name) \/ normalizeCriterionName(name) = <<>> ) =>
            /\ criteria.status = "EVALUATION_FAILED"
            /\ finalEvaluation.status = "EVALUATION_FAILED" )

\* The rubric and the scores carry the same names, one of them all
\* punctuation, so that the empty key would pair them.
C8_Witness ==
    /\ pc = "buildDone"
    /\ Len(structuredRubric.criteria) = 2
    /\ Len(evaluation.criteria_scores) = 2
    /\ \A i \in 1..2 :
          structuredRubric.criteria[i].name = evaluation.criteria_scores[i].name
    /\ structuredRubric.criteria[1].name = <<"-">>
    /\ RubricKeys[1] = <<>>
    /\ RubricKeys[2] # <<>>
    /\ finalEvaluation.status = "EVALUATION_FAILED"

(***************************************************************************)
(* C9: the recoverer tries the whole trimmed text first: whenever the      *)
(* trimmed model text is itself a valid JSON document, parseModelJson      *)
(* returns the parse of that whole text, also when the text holds          *)
(* code-fence markers, braces or brackets inside its string values.        *)
(* Stated for the documents that are objects, the only values              *)
(* parseModelJson returns at all.                                          *)
(***************************************************************************)
C9_WholeTextFirst ==
    (pc = "parseDone") =>
      ( LET whole == JSONParse(Trim(outputText))
        IN  (whole.ok /\ whole.kind = "object") =>
                /\ parsed.status = "ok"
                /\ parsed.value = whole.value )

(***************************************************************************)
(* C10: when the model text is prose surrounding one fenced block (``` or  *)
(* ```json) whose inner content is a valid JSON object, parseModelJson     *)
(* returns the parse of the fenced content, whatever the prose is.  One    *)
(* fenced block: the marker ``` stands at exactly two places of the text,  *)
(* the opening and the closing one.                                        *)
(***************************************************************************)
FencePositions(s) == { i \in 1..Len(s) : IsFenceAt(s, i) }

\* The content between the two markers, the json tag after the opening
\* marker left out.
FencedContent(s) ==
    LET open  == CHOOSE i \in FencePositions(s) : \A k \in FencePositions(s) : i <= k
        close == CHOOSE i \in FencePositions(s) : \A k \in FencePositions(s) : k <= i
        from  == IF open + 3 <= Len(s) /\ s[open + 3] \in LangTags
                 THEN open + 4 ELSE open + 3
    IN  SubSeq(s, from, close - 1)

IsProseAroundOneFence(s) ==
    /\ Cardinality(FencePositions(s)) = 2
    /\ \A i, k \in FencePositions(s) : i < k => i + 3 <= k
    /\ JSONParse(FencedContent(s)).ok
    /\ JSONParse(FencedContent(s)).kind = "object"

C10_FencedBlockRecovered ==
    (pc = "parseDone" /\ IsProseAroundOneFence(outputText)) =>
        /\ parsed.status = "ok"
        /\ parsed.value = JSONParse(FencedContent(outputText)).value

\* The prose on both sides holds braces that would mislead a brace slice,
\* and the object of the fenced block was returned.
C10_Witness ==
    /\ pc = "parseDone"
    /\ IsProseAroundOneFence(outputText)
    /\ Len(outputText) >= 2
    /\ outputText[1] = "}"
    /\ outputText[2] = "a"
    /\ outputText[Len(outputText)] = "{"
    /\ parsed.status = "ok"
    /\ parsed.value = Member(<<"1">>)

(***************************************************************************)
(* C11: recovery succeeds whenever one of the attempts parses: the trimmed *)
(* text, the content of each fenced block in order of appearance, the      *)
(* first-{-to-last-} slice, the first-[-to-last-] slice; the first attempt *)
(* that parses strictly is returned, also when an earlier attempt (the     *)
(* first fenced block) does not parse.  Stated for the texts that are not  *)
(* themselves JSON documents (C9 is about those) and for a first parsing   *)
(* attempt that is an object.                                              *)
(***************************************************************************)
\* The contents of the fenced blocks of s that open at or after position i.
RECURSIVE FencedBlocksFrom(_, _)
FencedBlocksFrom(s, i) ==
    LET open == FirstFence(s, i)
    IN  IF open = 0 THEN <<>>
        ELSE LET afterTag == IF open + 3 <= Len(s) /\ s[open + 3] \in LangTags
                             THEN open + 4 ELSE open + 3
                 close    == FirstFence(s, afterTag)
             IN  IF close = 0 THEN <<>>
                 ELSE <<Trim(SubSeq(s, afterTag, close - 1))>>
                          \o FencedBlocksFrom(s, close + 3)

\* The slice from the first open to the last close, when both stand in that order.
SliceAttempt(s, open, close) ==
    IF IndexOf(s, open) # 0 /\ LastIndexOf(s, close) > IndexOf(s, open)
    THEN <<SubSeq(s, IndexOf(s, open), LastIndexOf(s, close))>>
    ELSE <<>>

Attempts(text) ==
    LET trimmed == Trim(text)
    IN  <<trimmed>> \o FencedBlocksFrom(trimmed, 1)
            \o SliceAttempt(trimmed, "{", "}") \o SliceAttempt(trimmed, "[", "]")

\* The position of the first attempt that parses strictly, or 0.
FirstParsing(attempts) ==
    IF \E i \in 1..Len(attempts) : JSONParse(attempts[i]).ok
    THEN CHOOSE i \in 1..Len(attempts) :
             /\ JSONParse(attempts[i]).ok
             /\ \A k \in 1..(i - 1) : ~JSONParse(attempts[k]).ok
    ELSE 0

C11_FirstParsingAttempt ==
    (pc = "parseDone") =>
      ( LET attempts == Attempts(outputText)
            first    == FirstParsing(attempts)
        IN  (first > 1 /\ JSONParse(attempts[first]).kind = "object") =>
                /\ parsed.status = "ok"
                /\ parsed.value = JSONParse(attempts[first]).value )

(***************************************************************************)
(* C13: every report buildFinalEvaluation returns has exactly 3            *)
(* top_improvements, the first three entries of the evaluation's           *)
(* top_improvements in their order; an evaluation with fewer than 3        *)
(* entries yields no report but EVALUATION_FAILED.                         *)
(***************************************************************************)
C13_FirstThreeImprovements ==
    (pc = "buildDone") =>
        /\ finalEvaluation.status = "ok" =>
              /\ Len(finalEvaluation.top_improvements) = 3
              /\ \A i \in 1..3 :
                    finalEvaluation.top_improvements[i] = evaluation.top_improvements[i]
        /\ Len(evaluation.top_improvements) < 3 =>
              finalEvaluation.status = "EVALUATION_FAILED"

\* Five entries were given and the report holds the first three of them.
C13_Witness ==
    /\ pc = "buildDone"
    /\ evaluation.top_improvements = <<"t4", "t2", "t1", "t3", "t2">>
    /\ finalEvaluation.status = "ok"
    /\ finalEvaluation.top_improvements = <<"t4", "t2", "t1">>

(***************************************************************************)
(* C12: report assembly is all-or-nothing.  Every response of POST is      *)
(* either a complete report (title, overall_range, summary, exactly the    *)
(* reconciled criteria, top_improvements) with the success status, or an   *)
(* error body that holds no field of a report; a failure after some        *)
(* criteria were reconciled and clamped returns none of them.              *)
(***************************************************************************)
C12_AllOrNothing ==
    (pc = "responded") =>
        \/ /\ response.status = 200
           /\ DOMAIN response.body = ReportFields
           /\ criteria.status = "ok"
           /\ response.body.criteria = criteria.items
           /\ Len(response.body.criteria) = Len(structuredRubric.criteria)
           /\ response.body.title = "Evaluation Summary"
           /\ response.body.overall_range = finalEvaluation.overall_range
           /\ response.body.summary = evaluation.summary
           /\ Len(response.body.top_improvements) = 3
        \/ /\ response.status \in {400, 500}
           /\ "error" \in DOMAIN response.body
           /\ DOMAIN response.body \cap ReportFields = {}

\* Both rubric criteria had their score and were reconciled and clamped; a
\* third score made the length test of line 169 fail; the body is the error alone.
C12_Witness ==
    /\ pc = "responded"
    /\ Len(structuredRubric.criteria) = 2
    /\ Len(evaluation.criteria_scores) = 3
    /\ KeySet(RubricKeys) \subseteq KeySet(ScoreKeys)
    /\ Distinct(ScoreKeys) /\ NonEmpty(ScoreKeys)
    /\ Len(MapRubricCriteria(structuredRubric.criteria,
                             BuildScoreByName(evaluation.criteria_scores, 1, EmptyMap).map,
                             1, {}, <<>>).items) = 2
    /\ response = ErrorResponse(500, "EVALUATION_FAILED")

(***************************************************************************)
(* C14: within one request the two model calls are strictly ordered.  The  *)
(* evaluation model is invoked only after the structuring call has         *)
(* completed and its output passed RubricSchema; when structureRubric      *)
(* fails, the evaluation model is never invoked and the response is        *)
(* RUBRIC_STRUCTURE_FAILED.                                                *)
(***************************************************************************)
C14_StructureBeforeEvaluation ==
    /\ calls \in {<<>>, <<"STRUCTURE_MODEL">>, <<"STRUCTURE_MODEL", "EVALUATION_MODEL">>}
    /\ (Len(calls) = 2) =>
          /\ pc \in {"evaluating", "responded"}
          /\ modelOutput.STRUCTURE_MODEL.kind = "object"
          /\ RubricSchemaSafeParse(modelOutput.STRUCTURE_MODEL.value).success
          /\ structuredRubric = RubricSchemaSafeParse(modelOutput.STRUCTURE_MODEL.value).data
    /\ (/\ pc = "responded"
        /\ BoundaryResponse(formData).status = 0
        /\ structureRubric(callJsonModel("STRUCTURE_MODEL", modelEnv,
                                         modelOutput.STRUCTURE_MODEL)).threw) =>
          /\ Len(calls) <= 1
          /\ response = ErrorResponse(400, "RUBRIC_STRUCTURE_FAILED")

\* The structuring call was made and answered with an object that is no
\* rubric (one criterion only); the evaluation model was not called.
C14_Witness ==
    /\ pc = "responded"
    /\ calls = <<"STRUCTURE_MODEL">>
    /\ modelEnv.EVALUATION_MODEL
    /\ modelOutput.STRUCTURE_MODEL.kind = "object"
    /\ Field(modelOutput.STRUCTURE_MODEL.value, "criteria").type = "array"
    /\ Len(Field(modelOutput.STRUCTURE_MODEL.value, "criteria").items) = 1
    /\ response = ErrorResponse(400, "RUBRIC_STRUCTURE_FAILED")

(***************************************************************************)
(* C15: rubric validation rejects a parsed rubric value that has fewer     *)
(* than 2 criteria, a criterion whose max_score is not a number greater    *)
(* than 0, a missing or wrongly typed field, or an extra field:            *)
(* structureRubric fails with RUBRIC_STRUCTURE_FAILED for each of these    *)
(* and never returns such a value.                                         *)
(***************************************************************************)
C15_InvalidRubricRejected ==
    LET v    == modelOutput.STRUCTURE_MODEL.value
        list == Field(v, "criteria")
        BadCriterion(item) ==
            \/ item.type # "object"
            \/ DOMAIN item.fields # {"name", "max_score", "description"}
            \/ item.fields.name.type # "string"
            \/ item.fields.max_score.type # "number"
            \/ item.fields.max_score.num <= 0
            \/ item.fields.description.type # "string"
        Invalid ==
            \/ DOMAIN v.fields # {"criteria"}
            \/ list.type # "array"
            \/ Len(list.items) < MinCriteria
            \/ \E i \in 1..Len(list.items) : BadCriterion(list.items[i])
    IN  (/\ pc \in {"evaluating", "responded"}
         /\ BoundaryResponse(formData).status = 0
         /\ modelEnv.STRUCTURE_MODEL
         /\ modelOutput.STRUCTURE_MODEL.kind = "object"
         /\ Invalid) =>
            /\ pc = "responded"
            /\ calls = <<"STRUCTURE_MODEL">>
            /\ response = ErrorResponse(400, "RUBRIC_STRUCTURE_FAILED")

(***************************************************************************)
(* C16: every rubric that structureRubric returns satisfies the rubric     *)
(* invariant at validation time: each criterion name is non-empty and the  *)
(* normalized keys of all criteria are non-empty and pairwise distinct; a  *)
(* rubric with an empty, all-punctuation or duplicate criterion name is    *)
(* rejected before the evaluation model is called.                         *)
(***************************************************************************)
C16_RubricInvariantAtValidation ==
    (pc = "evaluating" \/ Len(calls) = 2) =>
        /\ \A i \in 1..Len(structuredRubric.criteria) :
              structuredRubric.criteria[i].name # <<>>
        /\ NonEmpty(RubricKeys)
        /\ Distinct(RubricKeys)

(***************************************************************************)
(* C17: evaluation normalization never invents data.  An estimated_range   *)
(* endpoint is changed only when it is a non-integer number, so an         *)
(* evaluation whose estimated_range is missing, has an endpoint that is    *)
(* null, a string or a boolean, or has a length other than 2 is still      *)
(* rejected by schema validation with EVALUATION_FAILED.                   *)
(***************************************************************************)
C17_BadRangeStillRejected ==
    LET out    == modelOutput.EVALUATION_MODEL
        scores == Field(out.value, "criteria_scores")
        BadRange(range) ==
            \/ range.type # "array"
            \/ Len(range.items) # 2
            \/ \E i \in 1..2 : range.items[i].type # "number"
    IN  (/\ pc = "responded"
         /\ Len(calls) = 2
         /\ out.kind = "object"
         /\ scores.type = "array"
         /\ \E i \in 1..Len(scores.items) :
               /\ scores.items[i].type = "object"
               /\ BadRange(Field(scores.items[i], "estimated_range"))) =>
            response = ErrorResponse(500, "EVALUATION_FAILED")

(***************************************************************************)
(* C18: every failure that occurs after the rubric was structured (the     *)
(* evaluation model call fails, its output cannot be parsed or fails       *)
(* EvaluationSchema, reconciliation fails, the rubric total is not         *)
(* positive, fewer than 3 top_improvements) reaches the caller as the one  *)
(* error EVALUATION_FAILED with the one status 500; nothing in the         *)
(* response tells the cause.                                               *)
(***************************************************************************)
C18_UniformEvaluationFailure ==
    (/\ pc = "responded"
     /\ BoundaryResponse(formData).status = 0
     /\ ~structureRubric(callJsonModel("STRUCTURE_MODEL", modelEnv,
                                       modelOutput.STRUCTURE_MODEL)).threw) =>
        /\ response.status # 200 => response = ErrorResponse(500, "EVALUATION_FAILED")
        /\ (\/ evaluateAssignment(callJsonModel("EVALUATION_MODEL", modelEnv,
                                                modelOutput.EVALUATION_MODEL)).threw
            \/ criteria.status # "ok"
            \/ finalEvaluation.status # "ok") =>
              response = ErrorResponse(500, "EVALUATION_FAILED")

\* The evaluation passed EvaluationSchema and scored a criterion that the
\* rubric does not hold: reconciliation failed in buildFinalEvaluation.
C18_Witness ==
    /\ pc = "responded"
    /\ Len(evaluation.criteria_scores) = 2
    /\ <<"c">> \in KeySet(ScoreKeys)
    /\ <<"c">> \notin KeySet(RubricKeys)
    /\ criteria.status = "EVALUATION_FAILED"
    /\ finalEvaluation.status = "EVALUATION_FAILED"
    /\ response = ErrorResponse(500, "EVALUATION_FAILED")

(***************************************************************************)
(* C19: a ModelUnavailable failure (an error of the model service, or a    *)
(* model identifier that is not set) is surfaced as a server-side failure  *)
(* in both stages: during the structuring call the response is a 5xx       *)
(* failure, distinct from the response for a structurally invalid rubric.  *)
(***************************************************************************)
C19_ModelUnavailableIsServerSide ==
    LET Unavailable(modelEnvKey) ==
            \/ ~modelEnv[modelEnvKey]
            \/ modelOutput[modelEnvKey].kind = "serviceError"
    IN  (pc = "responded" /\ BoundaryResponse(formData).status = 0) =>
            /\ Unavailable("STRUCTURE_MODEL") =>
                  /\ response.status \in 500..599
                  /\ response # ErrorResponse(400, "RUBRIC_STRUCTURE_FAILED")
            /\ (/\ ~structureRubric(callJsonModel("STRUCTURE_MODEL", modelEnv,
                                                  modelOutput.STRUCTURE_MODEL)).threw
                /\ Unavailable("EVALUATION_MODEL")) =>
                  response.status \in 500..599

(***************************************************************************)
(* C20: the request boundary processes a request only when each of the     *)
(* two fields (rubric, assignment) has exactly one source, an uploaded     *)
(* file or non-blank pasted text: a request in which a field has no        *)
(* source, or has both a file and pasted text, does not reach the model    *)
(* calls and returns a named error.                                        *)
(***************************************************************************)
C20_ExactlyOneSourcePerField ==
    LET ExactlyOne(file, text) == (file # "none") # (text = "text")
    IN  (/\ pc # "post"
         /\ \/ ~ExactlyOne(formData.rubric, formData.rubricText)
            \/ ~ExactlyOne(formData.assignment, formData.assignmentText)) =>
            /\ pc = "responded"
            /\ calls = <<>>
            /\ response.status = 400
            /\ response.body.error \in {"MISSING_INPUT", "FILE_TOO_LARGE",
                                        "UNSUPPORTED_FILE_TYPE", "TEXT_EXTRACTION_FAILED"}

(***************************************************************************)
(* C21 (as stated): when the scaled overall range before the width cap is  *)
(* [10, 95], the recentring uses center 52 and the reported overall_range  *)
(* is [40, 65].                                                            *)
(***************************************************************************)
C21_CenterFiftyTwo ==
    (/\ finalEvaluation.status = "ok"
     /\ RawScaledLow = 10
     /\ RawScaledHigh = 95) =>
        finalEvaluation.overall_range = <<40, 65>>

(***************************************************************************)
(* C21 (amended): when the scaled overall range before the width cap is    *)
(* [10, 95], the recentring uses center 53 (Math.round of 52.5) and the    *)
(* reported overall_range is [41, 66], of width 25.                        *)
(***************************************************************************)
C21_CenterFiftyThree ==
    (/\ finalEvaluation.status = "ok"
     /\ RawScaledLow = 10
     /\ RawScaledHigh = 95) =>
        finalEvaluation.overall_range = <<41, 66>>

\* The clamped ranges sum to [1, 10] over a rubric total of 10.5: 10 and 95
\* on the scale of 100.
C21_Witness ==
    /\ finalEvaluation.status = "ok"
    /\ SumOver(MaxScoreOf, structuredRubric.criteria) * 2 = 21 * ScoreUnit
    /\ SumOver(RangeLow, finalEvaluation.criteria) = 1
    /\ SumOver(RangeHigh, finalEvaluation.criteria) = 10
    /\ RawScaledLow = 10
    /\ RawScaledHigh = 95
    /\ finalEvaluation.overall_range = <<41, 66>>

(***************************************************************************)
(* C22: when the rubric max_scores total 100 and the clamped per-criterion *)
(* ranges sum to [L, H] with H - L <= 25, the reported overall_range is    *)
(* exactly [L, H]: scaling changes nothing and nothing is recentred.       *)
(***************************************************************************)
C22_TotalHundredKeepsSums ==
    (finalEvaluation.status = "ok") =>
        LET L == SumOver(RangeLow, finalEvaluation.criteria)
            H == SumOver(RangeHigh, finalEvaluation.criteria)
        IN  (/\ SumOver(MaxScoreOf, structuredRubric.criteria) = 100 * ScoreUnit
             /\ H - L <= 25) =>
                finalEvaluation.overall_range = <<L, H>>

\* The example of the claim: two criteria of max_score 50, each clamped to
\* [35, 40]; the sums are [70, 80].
C22_Witness ==
    /\ finalEvaluation.status = "ok"
    /\ SumOver(MaxScoreOf, structuredRubric.criteria) = 100 * ScoreUnit
    /\ SumOver(RangeLow, finalEvaluation.criteria) = 70
    /\ SumOver(RangeHigh, finalEvaluation.criteria) = 80
    /\ finalEvaluation.overall_range = <<70, 80>>

(***************************************************************************)
(* C23: for every input text, the empty one included, the output of        *)
(* normalizeText holds no carriage return, has no line that ends in a      *)
(* space or tab, has no run of three or more line feeds (more than one     *)
(* blank line in a row), has no leading or trailing whitespace, and is a   *)
(* fixed point: normalizeText(normalizeText(t)) = normalizeText(t).        *)
(***************************************************************************)
C23_NormalizedForm ==
    (pc = "textDone") =>
        LET out == normalizedText
            n   == Len(out)
        IN  /\ \A i \in 1..n : out[i] # "\r"
            /\ \A i \in 1..n : out[i] \in Blanks => (i < n /\ out[i + 1] # "\n")
            /\ \A i \in 1..(n - 2) : ~(out[i] = "\n" /\ out[i + 1] = "\n" /\ out[i + 2] = "\n")
            /\ n > 0 => (out[1] \notin Whitespace /\ out[n] \notin Whitespace)
            /\ renormalizedText = out

(***************************************************************************)
(* C24: an evaluation in which some criteria_scores entry has an           *)
(* estimated_range [low, high] with low > high after the rounding of the   *)
(* endpoints is rejected by the evaluation schema (EVALUATION_FAILED):     *)
(* normalization does not reorder the endpoints, and the inverted range    *)
(* never reaches clampCriterionRange (no criterion is reconciled).         *)
(***************************************************************************)
C24_InvertedRangeRejected ==
    LET out    == modelOutput.EVALUATION_MODEL
        scores == Field(out.value, "criteria_scores")
        Inverted(range) ==
            /\ range.type = "array"
            /\ Len(range.items) = 2
            /\ \A i \in 1..2 : range.items[i].type = "number"
            /\ Round(range.items[1].num, ScoreUnit) > Round(range.items[2].num, ScoreUnit)
    IN  (/\ pc = "responded"
         /\ Len(calls) = 2
         /\ out.kind = "object"
         /\ scores.type = "array"
         /\ \E i \in 1..Len(scores.items) :
               /\ scores.items[i].type = "object"
               /\ Inverted(Field(scores.items[i], "estimated_range"))) =>
            /\ response = ErrorResponse(500, "EVALUATION_FAILED")
            /\ criteria = NoCriteria
            /\ finalEvaluation = NoReport

\* The evaluation model gave criterion a the range [8, 6]; the request ended
\* with EVALUATION_FAILED.
C24_Witness ==
    /\ pc = "responded"
    /\ Len(calls) = 2
    /\ modelOutput.EVALUATION_MODEL.kind = "object"
    /\ LET scores == Field(modelOutput.EVALUATION_MODEL.value, "criteria_scores")
       IN  /\ scores.type = "array"
           /\ Len(scores.items) = 2
           /\ Field(scores.items[1], "estimated_range") =
                  JArray(<<JNumber(8 * ScoreUnit), JNumber(6 * ScoreUnit)>>)
    /\ response = ErrorResponse(500, "EVALUATION_FAILED")

(***************************************************************************)
(* C25: in every returned report the i-th output criterion carries the     *)
(* name and the max_score of the i-th rubric criterion unchanged, the      *)
(* feedback of the one score whose normalized key equals the key of that   *)
(* criterion, and as estimated_range clampCriterionRange of that score's   *)
(* range with that criterion's max_score; nothing is taken from the score  *)
(* at the same position when its key differs.                              *)
(***************************************************************************)
C25_JoinByKey ==
    (finalEvaluation.status = "ok") =>
        LET rubric == structuredRubric.criteria
            scores == evaluation.criteria_scores
            out    == finalEvaluation.criteria
            Matches(i) ==
                { j \in 1..Len(scores) :
                      normalizeCriterionName(scores[j].name) =
                          normalizeCriterionName(rubric[i].name) }
        IN  /\ Len(out) = Len(rubric)
            /\ \A i \in 1..Len(rubric) :
                  /\ out[i].name = rubric[i].name
                  /\ out[i].max_score = rubric[i].max_score
                  /\ Cardinality(Matches(i)) = 1
                  /\ \A j \in Matches(i) :
                        /\ out[i].feedback = scores[j].feedback
                        /\ out[i].estimated_range =
                               clampCriterionRange(scores[j].estimated_range,
                                                   rubric[i].max_score)

\* The scores come in another order and under another spelling than the
\* rubric criteria: the first output criterion has the rubric's name and the
\* feedback and range of the second score.
C25_Witness ==
    /\ finalEvaluation.status = "ok"
    /\ structuredRubric.criteria[1].name = <<"a">>
    /\ evaluation.criteria_scores[1].name = <<"b">>
    /\ evaluation.criteria_scores[2].name = <<"A", " ">>
    /\ finalEvaluation.criteria[1].name = <<"a">>
    /\ finalEvaluation.criteria[1].feedback = evaluation.criteria_scores[2].feedback
    /\ finalEvaluation.criteria[1].feedback # evaluation.criteria_scores[1].feedback
    /\ finalEvaluation.criteria[1].estimated_range # finalEvaluation.criteria[2].estimated_range

(***************************************************************************)
(* C26: for every model summary that is a string holding a character       *)
(* other than whitespace, the value of normalizeSummary passes the summary *)
(* constraint of EvaluationSchema (at most 280 characters, 1 to 2          *)
(* sentences as oneToTwoSentences counts them): an evaluation that would   *)
(* pass with another summary is not failed with EVALUATION_FAILED.         *)
(***************************************************************************)
C26_SummaryPassesSchema ==
    LET out     == modelOutput.EVALUATION_MODEL
        summary == Field(out.value, "summary")
        OtherSummary ==
            Object(JObject([out.value.fields EXCEPT !["summary"] = GoodSummary]))
    IN  (/\ pc = "responded"
         /\ Len(calls) = 2
         /\ out.kind = "object"
         /\ summary.type = "string"
         /\ \E i \in 1..Len(summary.str) : summary.str[i] \notin Whitespace) =>
            /\ Len(normalizeSummary(summary).str) <= MaxSummaryLength
            /\ oneToTwoSentences(normalizeSummary(summary).str)
            /\ ~evaluateAssignment(callJsonModel("EVALUATION_MODEL", modelEnv,
                                                   OtherSummary)).threw
                  => ~evaluateAssignment(callJsonModel("EVALUATION_MODEL", modelEnv,
                                                        out)).threw

(***************************************************************************)
(* C27: parseModelJson returns only JSON objects.  When the candidate it   *)
(* extracted parses to an array, null, a number, a string or a boolean     *)
(* (a candidate cut from the first [ to the last ] included), it fails     *)
(* with MODEL_JSON_PARSE_FAILED instead of returning the value.            *)
(***************************************************************************)
C27_OnlyObjectsReturned ==
    (pc = "parseDone") =>
        /\ parsed.status = "ok" =>
              /\ Len(parsed.value) >= 2
              /\ parsed.value[1] = "{"
              /\ parsed.value[Len(parsed.value)] = "}"
        /\ \A candidate \in {extractJsonCandidate(outputText)} :
              (/\ candidate.found
               /\ JSONParse(candidate.text).ok
               /\ JSONParse(candidate.text).kind \in
                      {"array", "null", "number", "string", "boolean"}) =>
                  parsed = ParseFailed

\* The text a[1] holds no brace and no fence: the candidate is the slice [1],
\* an array, and the call fails.
C27_Witness ==
    /\ pc = "parseDone"
    /\ outputText = <<"a", "[", "1", "]">>
    /\ extractJsonCandidate(outputText) = Candidate(<<"[", "1", "]">>)
    /\ JSONParse(<<"[", "1", "]">>).kind = "array"
    /\ parsed = ParseFailed

(***************************************************************************)
(* C28: the reported ranges depend only on the rubric's max_scores and on  *)
(* the model's estimated_range values matched by key.  An evaluation that  *)
(* differs from the one answered only in its summary, its feedback, the    *)
(* text of its top_improvements, the order of its criteria_scores or an    *)
(* overall_range field of its own gives a report with the same             *)
(* overall_range and the same estimated_range for every criterion.         *)
(***************************************************************************)
C28_RangesIgnoreProse ==
    LET value  == modelOutput.EVALUATION_MODEL.value
        scores == Field(value, "criteria_scores")
        other  == JString(<<"c">>)
        OtherSummary == JObject([value.fields EXCEPT !["summary"] = JString(<<"c", "!">>)])
        OtherTop ==
            JObject([value.fields EXCEPT !["top_improvements"] = JArray(<<other, other, other>>)])
        OtherFeedback ==
            JObject([value.fields EXCEPT !["criteria_scores"] =
                JArray([i \in 1..Len(scores.items) |->
                           JObject([scores.items[i].fields EXCEPT !["feedback"] = other])])])
        OtherOrder ==
            JObject([value.fields EXCEPT !["criteria_scores"] =
                JArray([i \in 1..Len(scores.items) |->
                           scores.items[Len(scores.items) + 1 - i]])])
        OwnOverall ==
            JObject([k \in DOMAIN value.fields \cup {"overall_range"} |->
                        IF k = "overall_range" THEN IntRange(0, 100) ELSE value.fields[k]])
        Ranges(body) ==
            <<body.overall_range,
              [i \in 1..Len(body.criteria) |-> body.criteria[i].estimated_range]>>
        SameRanges(answer) ==
            /\ answer.status = 200
            /\ Ranges(answer.body) = Ranges(response.body)
        ResponseTo(variant) ==
            SameRanges(RespondToEvaluation(structuredRubric,
                           evaluateAssignment(callJsonModel("EVALUATION_MODEL", modelEnv,
                                                            Object(variant)))).response)
    IN  (pc = "responded" /\ response.status = 200) =>
            /\ ResponseTo(OtherSummary)
            /\ ResponseTo(OtherTop)
            /\ ResponseTo(OtherFeedback)
            /\ ResponseTo(OtherOrder)
            /\ ResponseTo(OwnOverall)

\* A report was returned for scores that came in the reverse order of the
\* rubric criteria, with ranges that differ between the criteria.
C28_Witness ==
    /\ pc = "responded"
    /\ response.status = 200
    /\ Len(evaluation.criteria_scores) = 2
    /\ normalizeCriterionName(evaluation.criteria_scores[1].name) =
           normalizeCriterionName(structuredRubric.criteria[2].name)
    /\ response.body.criteria[1].estimated_range # response.body.criteria[2].estimated_range

\* The place of a loading step in the order of the steps.
StepRank(step) ==
    CASE step = "idle"                 -> 0
      [] step = "uploading"            -> 1
      [] step = "parsing"              -> 2
      [] step = "structuringRubric"    -> 3
      [] step = "evaluatingAssignment" -> 4

\* The calls of handleSubmit that have not returned.
Running == { s \in 1..MaxSubmissions : submissions[s].pc # "none" }

(***************************************************************************)
(* C29: during one handleSubmit loadingStep only moves forward in the      *)
(* order uploading, parsing, structuringRubric, evaluatingAssignment (no   *)
(* timer sets an earlier step once the response has arrived); whenever no  *)
(* handleSubmit is running (it returned after a validation error, an API   *)
(* error, a malformed payload, a thrown fetch error or a success),         *)
(* loadingStep is idle and no step timer is pending; and a submission      *)
(* starts only while loadingStep is idle, so no two run at once.           *)
(***************************************************************************)
C29_StepsForwardThenIdle ==
    /\ [](pc = "page" =>
             /\ Cardinality(Running) <= 1
             /\ Running = {} =>
                   /\ loadingStep = "idle"
                   /\ \A s \in 1..MaxSubmissions : submissions[s].stepTimers = <<>>
             /\ Running # {} => loadingStep # "idle")
    /\ [][pc = "page" =>
             /\ (loadingStep # "idle" /\ loadingStep' # "idle") =>
                    StepRank(loadingStep') >= StepRank(loadingStep)
             /\ (loadingStep = "idle" /\ loadingStep' # "idle") =>
                    loadingStep' = "uploading"
             /\ (\E s \in 1..MaxSubmissions :
                     submissions[s].pc = "none" /\ submissions'[s].pc # "none") =>
                    loadingStep = "idle"]_vars

\* A submission went through to a report: the response arrived, the report
\* is shown, handleSubmit has returned and loadingStep is idle again.
C29_Witness ==
    /\ pc = "page"
    /\ gradeResult = "shown"
    /\ pageError = ""
    /\ Running = {}
    /\ loadingStep = "idle"
    /\ \A s \in 1..MaxSubmissions : submissions[s].stepTimers = <<>>

(***************************************************************************)
(* C30: after any sequence of mode switches, file selections and drops,    *)
(* file removals and text edits, each field holds at most the source of    *)
(* its mode: in file mode its text is empty, in text mode its file is      *)
(* null; and the form data that handleSubmit builds holds, for each field, *)
(* exactly one of the file entry and the text entry.                       *)
(***************************************************************************)
C30_OneSourcePerMode ==
    (pc = "page") =>
        /\ \A f \in Fields :
              /\ inputMode[f] = "file" => fieldText[f] = <<>>
              /\ inputMode[f] = "text" => inputFile[f] = "null"
        /\ \A s \in Running :
              /\ ("rubric" \in submissions[s].formData)
                     # ("rubricText" \in submissions[s].formData)
              /\ ("assignment" \in submissions[s].formData)
                     # ("assignmentText" \in submissions[s].formData)

\* The rubric is pasted text, the assignment a file, and a submission built
\* from them is under way.
C30_Witness ==
    /\ pc = "page"
    /\ inputMode = [rubric |-> "text", assignment |-> "file"]
    /\ fieldText.rubric = <<"a">>
    /\ inputFile.assignment = "valid"
    /\ \E s \in Running : submissions[s].formData = {"rubricText", "assignment"}

====
